---- MODULE Spec2Model ----
(***************************************************************************)
(* A model of the profile model, the condition engine, the rule-list       *)
(* parsers and the PAC generator of packages/pac.                          *)
(*                                                                         *)
(* JavaScript strings are TLA+ strings; string indices are 0-based as in   *)
(* the source.  A JavaScript `undefined`/`null` value is Undefined.        *)
(***************************************************************************)
EXTENDS Integers, Sequences, FiniteSets, TLC

VARIABLES
    options,           \* the profile collection: key "+name" -> profile
    entry,             \* the profile name or rule-list text the operation is applied to
    request,           \* the request {url, host, scheme} of a match / FindProxyForURL call
    pc,                \* the position of the modelled caller
    refs,              \* result of the last Profiles.allReferenceSet call
    script,            \* result of the last generatePacScript call
    answer,            \* result of the last FindProxyForURL / Profiles.match / pacResult call
    rules,             \* result of the last RuleList parse call
    heap,              \* the profile objects: reference -> fields, revision and attached cache
    items,             \* Options._options: key "+name" -> reference of the profile object
    storage,           \* Storage._items of the options storage: key -> reference
    current,           \* Options._currentProfileName, "" when null
    now,               \* the clock: the time the last `new Date()` returned
    condObject,        \* a condition object: its fields and its attached cache
    calls              \* the number of calls the caller of the Options manager has made

\* the state of the Options manager and of the objects it shares with its callers
objVars == <<heap, items, storage, current, now, condObject, calls>>

vars == <<options, entry, request, pc, refs, script, answer, rules,
          heap, items, storage, current, now, condObject, calls>>

Undefined == [undefined |-> TRUE]

-----------------------------------------------------------------------------
(* String primitives of JavaScript used by the source.                     *)

Min(a, b) == IF a < b THEN a ELSE b
Max(a, b) == IF a > b THEN a ELSE b

\* s[i]; an out-of-range read is `undefined`, modelled as "" (no character equals it)
charAt(s, i) == IF i >= 0 /\ i < Len(s) THEN SubSeq(s, i + 1, i + 1) ELSE ""

\* String.prototype.substring(a, b): indices are clamped and swapped when a > b
clamp(i, n) == Max(0, Min(i, n))

subRange(s, ca, cb) == SubSeq(s, Min(ca, cb) + 1, Max(ca, cb))

substring(s, a, b) == subRange(s, clamp(a, Len(s)), clamp(b, Len(s)))

substringFrom(s, a) == substring(s, a, Len(s))

strStartsWith(str, prefix) == substring(str, 0, Len(prefix)) = prefix

\* String.prototype.indexOf(sub): the first index, or -1
firstIndex(hits) == IF hits = {} THEN -1 ELSE CHOOSE i \in hits : \A k \in hits : i <= k

lastIndex(hits) == IF hits = {} THEN -1 ELSE CHOOSE i \in hits : \A k \in hits : i >= k

indexOf(s, sub) ==
    firstIndex({i \in 0..(Len(s) - Len(sub)) : SubSeq(s, i + 1, i + Len(sub)) = sub})

\* String.prototype.lastIndexOf(sub): the last index, or -1
lastIndexOf(s, sub) ==
    lastIndex({i \in 0..(Len(s) - Len(sub)) : SubSeq(s, i + 1, i + Len(sub)) = sub})

WhiteSpace == {" ", "\t", "\n", "\r", "\f"}

\* String.prototype.trim()
trimTo(s, keep) == IF keep = {} THEN "" ELSE SubSeq(s, firstIndex(keep), lastIndex(keep))

trim(s) == trimTo(s, {i \in 1..Len(s) : SubSeq(s, i, i) \notin WhiteSpace})

\* text.split(/\n|\r/): the pieces between line breaks, empty pieces kept
RECURSIVE splitLinesFrom(_, _, _)
splitLinesFrom(s, start, i) ==
    IF i >= Len(s) THEN <<substring(s, start, Len(s))>>
    ELSE IF charAt(s, i) \in {"\n", "\r"}
         THEN <<substring(s, start, i)>> \o splitLinesFrom(s, i + 1, i + 1)
         ELSE splitLinesFrom(s, start, i + 1)

splitLines(s) == splitLinesFrom(s, 0, 0)

\* s.split(sep) for a one-character separator
RECURSIVE splitOnFrom(_, _, _, _)
splitOnFrom(s, sep, start, i) ==
    IF i >= Len(s) THEN <<substring(s, start, Len(s))>>
    ELSE IF charAt(s, i) = sep
         THEN <<substring(s, start, i)>> \o splitOnFrom(s, sep, i + 1, i + 1)
         ELSE splitOnFrom(s, sep, start, i + 1)

splitOn(s, sep) == splitOnFrom(s, sep, 0, 0)

\* Array.prototype.filter(Boolean) on strings: empty strings are dropped
RECURSIVE filterNonEmpty(_)
filterNonEmpty(parts) ==
    IF parts = <<>> THEN <<>>
    ELSE IF Head(parts) = "" THEN filterNonEmpty(Tail(parts))
         ELSE <<Head(parts)>> \o filterNonEmpty(Tail(parts))

\* Array.prototype.join(sep)
RECURSIVE join(_, _)
join(parts, sep) ==
    IF parts = <<>> THEN ""
    ELSE IF Len(parts) = 1 THEN parts[1]
         ELSE parts[1] \o sep \o join(Tail(parts), sep)

LowerCase == "abcdefghijklmnopqrstuvwxyz"
UpperCase == "ABCDEFGHIJKLMNOPQRSTUVWXYZ"
Digits == "0123456789"

isAlnum(c) == c # "" /\ (indexOf(LowerCase, c) >= 0 \/ indexOf(UpperCase, c) >= 0 \/ indexOf(Digits, c) >= 0)

\* String.prototype.toUpperCase() on ASCII text
RECURSIVE toUpperCase(_)
upperChar(c, k) == IF k >= 0 THEN SubSeq(UpperCase, k + 1, k + 1) ELSE c

toUpperCase(s) ==
    IF s = "" THEN ""
    ELSE upperChar(Head(s), indexOf(LowerCase, Head(s))) \o toUpperCase(Tail(s))

-----------------------------------------------------------------------------
(* shexp-utils.ts: shell expressions to regular expressions.               *)

regExpMetaChars == {"\\", "[", "^", "$", ".", "|", "?", "*", "+", "(", ")", "{", "}", "/"}

RECURSIVE shExpBody(_, _, _)
shExpBody(pattern, i, end) ==
    IF i >= end THEN ""
    ELSE LET c == charAt(pattern, i)
         IN  (IF c = "*" THEN ".*"
              ELSE IF c = "?" THEN "."
              ELSE IF c \in regExpMetaChars THEN "\\" \o c
              ELSE c) \o shExpBody(pattern, i + 1, end)

RECURSIVE trimStart(_, _, _)
trimStart(pattern, start, end) ==
    IF start < end /\ charAt(pattern, start) = "*"
    THEN trimStart(pattern, start + 1, end) ELSE start

RECURSIVE trimEnd(_, _, _)
trimEnd(pattern, start, end) ==
    IF start < end /\ charAt(pattern, end - 1) = "*"
    THEN trimEnd(pattern, start, end - 1) ELSE end

\* the regular expression of pattern[start..end), anchored where nothing was trimmed
shExpAnchored(pattern, trimAsterisk, start, end) ==
    IF trimAsterisk /\ end - start = 1 /\ charAt(pattern, start) = "*" THEN ""
    ELSE (IF start = 0 THEN "^" ELSE "")
         \o shExpBody(pattern, start, end)
         \o (IF end = Len(pattern) THEN "$" ELSE "")

shExpTrimmed(pattern, start) ==
    shExpAnchored(pattern, TRUE, start, trimEnd(pattern, start, Len(pattern)))

shExp2RegExp(pattern, trimAsterisk) ==
    IF trimAsterisk THEN shExpTrimmed(pattern, trimStart(pattern, 0, Len(pattern)))
    ELSE shExpAnchored(pattern, FALSE, 0, Len(pattern))

-----------------------------------------------------------------------------
(* RegExp.prototype.test for the regular expressions the condition engine  *)
(* builds from wildcard patterns: alternatives of ^, $, ., .*, escaped and *)
(* plain literals, the group (?:^|\.) and the class [^:]+.  Positions are  *)
(* 1-based.                                                                *)

LabelBoundary == "(?:^|\\.)"
NotColons == "[^:]+"

RECURSIVE reMatchHere(_, _, _, _)
reMatchHere(re, i, s, j) ==
    IF i > Len(re) THEN TRUE
    ELSE LET c == charAt(re, i - 1)
         IN  CASE c = "^" -> j = 1 /\ reMatchHere(re, i + 1, s, j)
               [] c = "$" -> j = Len(s) + 1 /\ reMatchHere(re, i + 1, s, j)
               [] c = "(" ->
                    /\ substring(re, i - 1, i - 1 + Len(LabelBoundary)) = LabelBoundary
                    /\ \/ j = 1 /\ reMatchHere(re, i + Len(LabelBoundary), s, j)
                       \/ /\ j <= Len(s)
                          /\ charAt(s, j - 1) = "."
                          /\ reMatchHere(re, i + Len(LabelBoundary), s, j + 1)
               [] c = "[" ->
                    /\ substring(re, i - 1, i - 1 + Len(NotColons)) = NotColons
                    /\ \E k \in (j + 1)..(Len(s) + 1) :
                          /\ \A m \in j..(k - 1) : charAt(s, m - 1) # ":"
                          /\ reMatchHere(re, i + Len(NotColons), s, k)
               [] c = "." ->
                    IF charAt(re, i) = "*"
                    THEN \E k \in j..(Len(s) + 1) :
                            /\ \A m \in j..(k - 1) : charAt(s, m - 1) \notin {"\n", "\r"}
                            /\ reMatchHere(re, i + 2, s, k)
                    ELSE /\ j <= Len(s)
                         /\ charAt(s, j - 1) \notin {"\n", "\r"}
                         /\ reMatchHere(re, i + 1, s, j + 1)
               [] c = "\\" ->
                    /\ j <= Len(s)
                    /\ charAt(s, j - 1) = charAt(re, i)
                    /\ reMatchHere(re, i + 2, s, j + 1)
               [] OTHER ->
                    /\ j <= Len(s)
                    /\ charAt(s, j - 1) = c
                    /\ reMatchHere(re, i + 1, s, j + 1)

\* the top-level alternatives of a regular expression source
RECURSIVE reAlternatives(_, _, _, _)
reAlternatives(re, start, i, depth) ==
    IF i > Len(re) THEN <<substring(re, start - 1, Len(re))>>
    ELSE LET c == charAt(re, i - 1)
         IN  IF c = "\\" THEN reAlternatives(re, start, i + 2, depth)
             ELSE IF c = "(" THEN reAlternatives(re, start, i + 1, depth + 1)
             ELSE IF c = ")" THEN reAlternatives(re, start, i + 1, depth - 1)
             ELSE IF c = "|" /\ depth = 0
                  THEN <<substring(re, start - 1, i - 1)>> \o reAlternatives(re, i + 1, i + 1, depth)
                  ELSE reAlternatives(re, start, i + 1, depth)

regexTest(re, s) ==
    LET alts == reAlternatives(re, 1, 1, 0)
    IN  \E a \in 1..Len(alts) : \E j \in 1..(Len(s) + 1) : reMatchHere(alts[a], 1, s, j)

-----------------------------------------------------------------------------
(* conditions.ts: the condition engine.  A condition is a record with a    *)
(* conditionType and the fields of its variant.                            *)

\* String.prototype.replace(/./, by): the first character is replaced
replaceFirstChar(s, by) == IF s = "" THEN s ELSE by \o substringFrom(s, 1)

\* String.prototype.replace(/\.\*\$$/, ''): a trailing ".*$" is removed
dropTrailingAny(s) ==
    IF Len(s) >= 3 /\ substringFrom(s, Len(s) - 3) = ".*$"
    THEN substring(s, 0, Len(s) - 3) ELSE s

\* a variant without the label boundary: '*.D' matches the subdomains of D only
hostWildcardPartSubdomainOnly(pattern) ==
    LET p == IF charAt(pattern, 0) = "." THEN "*" \o pattern ELSE pattern
    IN  IF indexOf(p, "**.") = 0 THEN shExp2RegExp(substringFrom(p, 1), TRUE)
        ELSE shExp2RegExp(p, TRUE)

hostWildcardPart(pattern) ==
    LET p == IF charAt(pattern, 0) = "." THEN "*" \o pattern ELSE pattern
    IN  IF indexOf(p, "**.") = 0 THEN shExp2RegExp(substringFrom(p, 1), TRUE)
        ELSE IF indexOf(p, "*.") = 0
             THEN dropTrailingAny(replaceFirstChar(shExp2RegExp(substringFrom(p, 2), FALSE),
                                                   LabelBoundary))
             ELSE shExp2RegExp(p, TRUE)

RECURSIVE mapHostWildcardPart(_)
mapHostWildcardPart(parts) ==
    IF parts = <<>> THEN <<>>
    ELSE <<hostWildcardPart(Head(parts))>> \o mapHostWildcardPart(Tail(parts))

RECURSIVE mapUrlWildcardPart(_)
mapUrlWildcardPart(parts) ==
    IF parts = <<>> THEN <<>>
    ELSE <<shExp2RegExp(Head(parts), TRUE)>> \o mapUrlWildcardPart(Tail(parts))

\* HostWildcardCondition.analyze: the source of the compiled regular expression
analyzeHostWildcard(condition) ==
    join(mapHostWildcardPart(filterNonEmpty(splitOn(condition.pattern, "|"))), "|")

\* UrlWildcardCondition.analyze
analyzeUrlWildcard(condition) ==
    join(mapUrlWildcardPart(filterNonEmpty(splitOn(condition.pattern, "|"))), "|")

\* HostLevelsCondition.match: the dots of the host are counted, with an early
\* exit as soon as the count exceeds maxValue
RECURSIVE hostLevelsScan(_, _, _, _)
hostLevelsScan(condition, host, i, dotCount) ==
    IF i >= Len(host) THEN dotCount >= condition.minValue
    ELSE IF charAt(host, i) = "."
         THEN IF dotCount + 1 > condition.maxValue THEN FALSE
              ELSE hostLevelsScan(condition, host, i + 1, dotCount + 1)
         ELSE hostLevelsScan(condition, host, i + 1, dotCount)

\* Conditions.match(condition, request) for the condition types modelled
ConditionsMatch(condition, req) ==
    CASE condition.conditionType = "TrueCondition" -> TRUE
      [] condition.conditionType = "FalseCondition" -> FALSE
      [] condition.conditionType = "UrlWildcardCondition" ->
            regexTest(analyzeUrlWildcard(condition), req.url)
      [] condition.conditionType = "HostWildcardCondition" ->
            regexTest(analyzeHostWildcard(condition), req.host)
      [] condition.conditionType = "KeywordCondition" ->
            req.scheme = "http" /\ indexOf(req.url, condition.pattern) >= 0
      [] condition.conditionType = "HostLevelsCondition" ->
            hostLevelsScan(condition, req.host, 0, 0)

\* The Conditions object has no `compile` member: the call
\* Conditions.compile(condition) raises a TypeError for every condition.
ConditionsCompile(condition) == [raised |-> TRUE, code |-> ""]

-----------------------------------------------------------------------------
(* profiles.ts: the profile model.                                         *)

nameAsKey(profileName) == "+" \o profileName

builtinProfiles ==
    [k \in {"+direct", "+system"} |->
        IF k = "+direct" THEN [name |-> "direct", profileType |-> "DirectProfile"]
        ELSE [name |-> "system", profileType |-> "SystemProfile"]]

pacProtocolSchemes == {"http", "https", "socks4", "socks5"}

pacProtocols ==
    [s \in pacProtocolSchemes |->
        CASE s = "http" -> "PROXY"
          [] s = "https" -> "HTTPS"
          [] s = "socks4" -> "SOCKS"
          [] s = "socks5" -> "SOCKS5"]

\* the scheme-specific properties of a FixedProfile, in the order of `schemes`
schemes ==
    << [scheme |-> "http", prop |-> "proxyForHttp"],
       [scheme |-> "https", prop |-> "proxyForHttps"],
       [scheme |-> "ftp", prop |-> "proxyForFtp"],
       [scheme |-> "", prop |-> "fallbackProxy"] >>

hostPort(proxy) == proxy.host \o ":" \o ToString(proxy.port)

\* a pacResult without the SOCKS fallback of socks5
pacResultNoFallback(proxy) ==
    IF proxy = Undefined \/ proxy.scheme = "direct" THEN "DIRECT"
    ELSE IF proxy.scheme \notin DOMAIN pacProtocols THEN "DIRECT"
    ELSE pacProtocols[proxy.scheme] \o " " \o hostPort(proxy)

pacResult(proxy) ==
    IF proxy = Undefined \/ proxy.scheme = "direct" THEN "DIRECT"
    ELSE IF proxy.scheme \notin DOMAIN pacProtocols THEN "DIRECT"
    ELSE IF proxy.scheme = "socks5"
         THEN "SOCKS5 " \o hostPort(proxy) \o "; SOCKS " \o hostPort(proxy)
         ELSE pacProtocols[proxy.scheme] \o " " \o hostPort(proxy)

byName(profileName, opts) ==
    LET key == nameAsKey(profileName)
    IN  IF key \in DOMAIN builtinProfiles THEN builtinProfiles[key]
        ELSE IF key \in DOMAIN opts THEN opts[key]
        ELSE Undefined

isInclusive(profile) ==
    profile.profileType \in
        {"SwitchProfile", "VirtualProfile", "RuleListProfile", "AutoProxyRuleListProfile"}

\* url?.substring(0, 5).toUpperCase() === 'FILE:'
\* (url is Undefined or a string value [str |-> s])
isFileUrl(url) ==
    IF url = Undefined THEN FALSE ELSE toUpperCase(substring(url.str, 0, 5)) = "FILE:"

pacUrlOf(profile) ==
    IF "pacUrl" \in DOMAIN profile THEN [str |-> profile.pacUrl] ELSE Undefined

isIncludable(profile) ==
    CASE profile.profileType \in {"DirectProfile", "FixedProfile", "SwitchProfile",
                                  "RuleListProfile", "AutoProxyRuleListProfile"} -> TRUE
      [] profile.profileType = "PacProfile" -> ~isFileUrl(pacUrlOf(profile))
      [] profile.profileType = "VirtualProfile" -> TRUE
      [] OTHER -> FALSE

\* obj[nameAsKey(name)] = name on an object whose values are read in insertion
\* order: a key already present keeps its place
objSet(obj, name) ==
    IF \E i \in 1..Len(obj) : obj[i] = name THEN obj ELSE Append(obj, name)

RECURSIVE objSetAll(_, _)
objSetAll(obj, names) ==
    IF names = <<>> THEN obj ELSE objSetAll(objSet(obj, Head(names)), Tail(names))

RECURSIVE ruleTargets(_)
ruleTargets(rs) ==
    IF rs = <<>> THEN <<>> ELSE <<Head(rs).profileName>> \o ruleTargets(Tail(rs))

fixedProp(profile, prop) ==
    CASE prop = "proxyForHttp" -> profile.proxyForHttp
      [] prop = "proxyForHttps" -> profile.proxyForHttps
      [] prop = "proxyForFtp" -> profile.proxyForFtp
      [] prop = "fallbackProxy" -> profile.fallbackProxy

-----------------------------------------------------------------------------
(* conditions.ts: IP literals and subnets.  A JavaScript number that may   *)
(* be NaN is Num(v) or NaN; an unsigned 32-bit number is the sequence of   *)
(* its four octets, most significant first.                                 *)

\* the number NaN
NaN == [nan |-> TRUE]
Num(v) == [nan |-> FALSE, value |-> v]

\* parseInt(s, 10): the leading decimal digits
RECURSIVE digitsValue(_, _, _)
digitsValue(s, i, acc) ==
    IF i < Len(s) /\ indexOf(Digits, charAt(s, i)) >= 0
    THEN digitsValue(s, i + 1, acc * 10 + indexOf(Digits, charAt(s, i)))
    ELSE acc

parseDigits(body, sign) ==
    IF body = "" \/ indexOf(Digits, charAt(body, 0)) < 0 THEN NaN
    ELSE Num(sign * digitsValue(body, 0, 0))

parseSigned(t) ==
    IF charAt(t, 0) = "-" THEN parseDigits(substringFrom(t, 1), -1)
    ELSE IF charAt(t, 0) = "+" THEN parseDigits(substringFrom(t, 1), 1)
    ELSE parseDigits(t, 1)

parseInt(s) == parseSigned(trim(s))

\* `null`
Null == [null |-> TRUE]

\* /^\d+$/.test(p)
isDigits(p) == p # "" /\ \A k \in 0..(Len(p) - 1) : indexOf(Digits, charAt(p, k)) >= 0

Ipv6Chars == "0123456789abcdefABCDEF:"

\* /^[0-9a-fA-F:]+$/.test(ip)
isIpv6Chars(ip) == ip # "" /\ \A k \in 0..(Len(ip) - 1) : indexOf(Ipv6Chars, charAt(ip, k)) >= 0

OctetMax == 255

isIpv4Parts(parts) ==
    /\ Len(parts) = 4
    /\ \A i \in 1..Len(parts) : isDigits(parts[i]) /\ parseInt(parts[i]).value <= OctetMax

parseIpPlain(ip) ==
    IF indexOf(ip, ":") >= 0
    THEN IF isIpv6Chars(ip) THEN [v4 |-> FALSE, address |-> ip] ELSE Null
    ELSE IF isIpv4Parts(splitOn(ip, ".")) THEN [v4 |-> TRUE, address |-> ip] ELSE Null

\* ip.substring(1, ip.length - 1) when ip starts with '['
unbracket(ip) == IF charAt(ip, 0) = "[" THEN substring(ip, 1, Len(ip) - 1) ELSE ip

\* parseIp: Null, or the record {v4, address}
parseIp(ip) == parseIpPlain(unbracket(ip))

\* ipToNumber on the address of a parsed IPv4 literal: every part is at most 255,
\* so (p0 << 24 | p1 << 16 | p2 << 8 | p3) >>> 0 has the parts as its octets
RECURSIVE mapOctet(_)
mapOctet(parts) ==
    IF parts = <<>> THEN <<>> ELSE <<parseInt(Head(parts)).value>> \o mapOctet(Tail(parts))

ipToNumber(ip) == mapOctet(splitOn(ip, "."))

WordBits == 32
OctetBits == 8

\* the shift count of `0xffffffff << (32 - prefixLength)`: the right operand of
\* << is converted to an integer (NaN gives 0) and only its low five bits count
shiftCount(prefixLength) ==
    IF prefixLength.nan THEN 0 ELSE (WordBits - prefixLength.value) % WordBits

\* octet k (1 = most significant) of (0xffffffff << count) >>> 0
maskOctet(count, k) ==
    (2 ^ OctetBits) - 2 ^ (OctetBits - clamp(WordBits - count - OctetBits * (k - 1), OctetBits))

subnetMask(prefixLength) == [k \in 1..4 |-> maskOctet(shiftCount(prefixLength), k)]

\* a & b on octets
RECURSIVE bitAnd(_, _)
bitAnd(a, b) ==
    IF a = 0 \/ b = 0 THEN 0 ELSE (a % 2) * (b % 2) + 2 * bitAnd(a \div 2, b \div 2)

\* (ipNum & mask) === (subnetNum & mask)
maskedEqual(ipNum, subnetNum, mask) ==
    \A k \in 1..4 : bitAnd(ipNum[k], mask[k]) = bitAnd(subnetNum[k], mask[k])

isIpInSubnetParsed(ipAddr, subnetAddr, prefixLength) ==
    IF ipAddr = Null \/ subnetAddr = Null THEN FALSE
    ELSE IF ipAddr.v4 # subnetAddr.v4 THEN FALSE
    ELSE IF ipAddr.v4
         THEN maskedEqual(ipToNumber(ipAddr.address), ipToNumber(subnetAddr.address),
                          subnetMask(prefixLength))
         ELSE FALSE

\* isIpInSubnet(ip, subnet, prefixLength)
isIpInSubnet(ip, subnet, prefixLength) ==
    isIpInSubnetParsed(parseIp(ip), parseIp(subnet), prefixLength)

-----------------------------------------------------------------------------
(* conditions.ts: parsing a condition from its string form.                *)

conditionAbbrs ==
    << [type |-> "TrueCondition", abbrs |-> <<"True">>],
       [type |-> "FalseCondition", abbrs |-> <<"False", "Disabled">>],
       [type |-> "UrlRegexCondition", abbrs |-> <<"UR", "URegex", "UrlR", "UrlRegex">>],
       [type |-> "UrlWildcardCondition",
        abbrs |-> <<"U", "UW", "Url", "UrlW", "UWild", "UWildcard", "UrlWild", "UrlWildcard">>],
       [type |-> "HostRegexCondition",
        abbrs |-> <<"R", "HR", "Regex", "HostR", "HRegex", "HostRegex">>],
       [type |-> "HostWildcardCondition",
        abbrs |-> <<"", "H", "W", "HW", "Wild", "Wildcard", "Host", "HostW", "HWild",
                    "HWildcard", "HostWild", "HostWildcard">>],
       [type |-> "BypassCondition", abbrs |-> <<"B", "Bypass">>],
       [type |-> "KeywordCondition", abbrs |-> <<"K", "KW", "Keyword">>],
       [type |-> "IpCondition", abbrs |-> <<"Ip">>],
       [type |-> "HostLevelsCondition",
        abbrs |-> <<"Lv", "Level", "Levels", "HL", "HLv", "HLevel", "HLevels", "HostL",
                    "HostLv", "HostLevel", "HostLevels">>],
       [type |-> "WeekdayCondition", abbrs |-> <<"WD", "Week", "Day", "Weekday">>],
       [type |-> "TimeCondition", abbrs |-> <<"T", "Time", "Hour">>] >>

\* `null` where a condition type name is expected
NoType == ""

\* Conditions.typeFromAbbr: the abbreviation map is keyed by the upper-cased type
\* name and abbreviations; a later entry overwrites an earlier one
typeOfEntry(k) == IF k < 0 THEN NoType ELSE conditionAbbrs[k].type

typeFromUpper(up) ==
    typeOfEntry(lastIndex({i \in 1..Len(conditionAbbrs) :
                              \E k \in 0..Len(conditionAbbrs[i].abbrs) :
                                 toUpperCase(IF k = 0 THEN conditionAbbrs[i].type
                                             ELSE conditionAbbrs[i].abbrs[k]) = up}))

typeFromAbbr(abbr) == typeFromUpper(toUpperCase(abbr))

\* minValue! > 0 ? minValue! : 1   (a comparison with NaN or undefined is false)
positiveOrOne(v) == IF ~v.nan /\ v.value > 0 THEN v.value ELSE 1

\* HostLevelsCondition.fromStr on str.split('~')
hostLevelsFromParts(parts) ==
    [conditionType |-> "HostLevelsCondition",
     minValue |-> positiveOrOne(parseInt(parts[1])),
     maxValue |-> positiveOrOne(IF Len(parts) >= 2 THEN parseInt(parts[2]) ELSE NaN)]

\* IpCondition.fromStr on str.split('/')
ipFromParts(parts) ==
    IF parseIp(parts[1]) # Null
    THEN [conditionType |-> "IpCondition", ip |-> parseIp(parts[1]).address,
          prefixLength |-> parseInt(IF Len(parts) >= 2 THEN parts[2] ELSE "32")]
    ELSE [conditionType |-> "IpCondition", ip |-> "0.0.0.0", prefixLength |-> Num(0)]

\* v !== undefined && v >= 0 && v <= max ? v : 0
inRangeOrZero(v, max) == IF ~v.nan /\ v.value >= 0 /\ v.value <= max THEN v.value ELSE 0

partOrNaN(parts, k) == IF Len(parts) >= k THEN parseInt(parts[k]) ELSE NaN

LastDay == 6
LastHour == 23

\* WeekdayCondition.fromStr
weekdayFromStr(str) ==
    IF indexOf(str, "~") < 0 /\ Len(str) = 7
    THEN [conditionType |-> "WeekdayCondition", days |-> str]
    ELSE [conditionType |-> "WeekdayCondition",
          startDay |-> inRangeOrZero(partOrNaN(splitOn(str, "~"), 1), LastDay),
          endDay |-> inRangeOrZero(partOrNaN(splitOn(str, "~"), 2), LastDay)]

\* TimeCondition.fromStr
timeFromStr(str) ==
    [conditionType |-> "TimeCondition",
     startHour |-> inRangeOrZero(partOrNaN(splitOn(str, "~"), 1), LastHour),
     endHour |-> inRangeOrZero(partOrNaN(splitOn(str, "~"), 2), LastHour)]

\* the type-specific fromStr handlers; the types without one keep the text as
\* their pattern
conditionHandlerFromStr(conditionType, str) ==
    CASE conditionType = "TrueCondition" -> [conditionType |-> conditionType]
      [] conditionType = "FalseCondition" ->
            IF Len(str) > 0 THEN [conditionType |-> conditionType, pattern |-> str]
            ELSE [conditionType |-> conditionType]
      [] conditionType = "HostLevelsCondition" -> hostLevelsFromParts(splitOn(str, "~"))
      [] conditionType = "IpCondition" -> ipFromParts(splitOn(str, "/"))
      [] conditionType = "WeekdayCondition" -> weekdayFromStr(str)
      [] conditionType = "TimeCondition" -> timeFromStr(str)
      [] conditionType \in {"UrlRegexCondition", "UrlWildcardCondition", "HostRegexCondition",
                            "HostWildcardCondition", "BypassCondition", "KeywordCondition"} ->
            [conditionType |-> conditionType, pattern |-> str]

\* Conditions.fromStr
fromStrTyped(conditionType, str) ==
    IF conditionType = NoType THEN Undefined ELSE conditionHandlerFromStr(conditionType, str)

\* str with the first space (or the end of str) at index i
fromStrAt(str, i) ==
    IF charAt(str, i - 1) = ":"
    THEN fromStrTyped(typeFromAbbr(substring(str, 0, i - 1)), trim(substringFrom(str, i + 1)))
    ELSE fromStrTyped(typeFromAbbr(""), str)

fromStrTrimmed(str) == fromStrAt(str, IF indexOf(str, " ") < 0 THEN Len(str) ELSE indexOf(str, " "))

ConditionsFromStr(text) == fromStrTrimmed(trim(text))

\* urlWildcard2HostWildcard: /^\*:\/\/((?:\w|[?*._-])+)\/\*$/; `null` is ""
hostWildcardInner(pattern, inner) ==
    IF /\ Len(pattern) >= 7
       /\ substring(pattern, 0, 4) = "*://"
       /\ substringFrom(pattern, Len(pattern) - 2) = "/*"
       /\ \A k \in 0..(Len(inner) - 1) :
             isAlnum(charAt(inner, k)) \/ charAt(inner, k) \in {"_", "?", "*", ".", "-"}
    THEN inner ELSE ""

urlWildcard2HostWildcard(pattern) ==
    hostWildcardInner(pattern, substring(pattern, 4, Len(pattern) - 2))

-----------------------------------------------------------------------------
(* rule-list.ts: the AutoProxy format.                                     *)

Base64Alphabet == "ABCDEFGHIJKLMNOPQRSTUVWXYZabcdefghijklmnopqrstuvwxyz0123456789+/"

\* the characters of codes 32..95 and of codes 97..126, in code order
AsciiLow == " !\"#$%&'()*+,-./0123456789:;<=>?@ABCDEFGHIJKLMNOPQRSTUVWXYZ[\\]^_"
AsciiHigh == "abcdefghijklmnopqrstuvwxyz{|}~"

\* String.fromCharCode for the codes of ASCII text
fromCharCode(code) ==
    CASE code >= 32 /\ code <= 95 -> charAt(AsciiLow, code - 32)
      [] code >= 97 /\ code <= 126 -> charAt(AsciiHigh, code - 97)
      [] code = 10 -> "\n"
      [] code = 13 -> "\r"
      [] code = 9 -> "\t"

RECURSIVE stripWhiteSpace(_)
stripWhiteSpace(s) ==
    IF s = "" THEN ""
    ELSE (IF charAt(s, 0) \in WhiteSpace THEN "" ELSE charAt(s, 0))
         \o stripWhiteSpace(substringFrom(s, 1))

\* the padding of base64 data: up to two trailing "=" of data whose length is a
\* multiple of four
base64Unpadded(s) ==
    IF Len(s) % 4 = 0 /\ Len(s) > 0 /\ charAt(s, Len(s) - 1) = "="
    THEN IF charAt(s, Len(s) - 2) = "=" THEN substring(s, 0, Len(s) - 2)
         ELSE substring(s, 0, Len(s) - 1)
    ELSE s

base64Valid(data) ==
    /\ Len(data) % 4 # 1
    /\ \A i \in 0..(Len(data) - 1) : indexOf(Base64Alphabet, charAt(data, i)) >= 0

b64(data, i) == indexOf(Base64Alphabet, charAt(data, i))

RECURSIVE base64Decode(_, _)
base64Decode(data, i) ==
    LET left == Len(data) - i
    IN  IF left <= 0 THEN ""
        ELSE IF left >= 4
        THEN LET n == b64(data, i) * 262144 + b64(data, i + 1) * 4096
                      + b64(data, i + 2) * 64 + b64(data, i + 3)
             IN  fromCharCode(n \div 65536) \o fromCharCode((n \div 256) % 256)
                 \o fromCharCode(n % 256) \o base64Decode(data, i + 4)
        ELSE IF left = 3
        THEN LET n == b64(data, i) * 4096 + b64(data, i + 1) * 64 + b64(data, i + 2)
             IN  fromCharCode(n \div 1024) \o fromCharCode((n \div 4) % 256)
        ELSE LET n == b64(data, i) * 64 + b64(data, i + 1)
             IN  fromCharCode(n \div 16)

\* atob(text): raised is TRUE for an InvalidCharacterError
atob(text) ==
    LET data == base64Unpadded(stripWhiteSpace(text))
    IN  IF base64Valid(data) THEN [raised |-> FALSE, value |-> base64Decode(data, 0)]
        ELSE [raised |-> TRUE, value |-> ""]

\* base64 of "[AutoProx"
magicPrefix == "W0F1dG9Qcm94"

\* AutoProxy.preprocess
AutoProxyPreprocess(text) ==
    IF strStartsWith(text, magicPrefix)
    THEN LET decoded == atob(text)
         IN  IF decoded.raised THEN text ELSE decoded.value
    ELSE text

\* the condition of one AutoProxy pattern
autoProxyCondition(pattern) ==
    IF charAt(pattern, 0) = "/"
    THEN [conditionType |-> "UrlRegexCondition",
          pattern |-> substring(pattern, 1, Len(pattern) - 1)]
    ELSE IF charAt(pattern, 0) = "|"
    THEN IF charAt(pattern, 1) = "|"
         THEN [conditionType |-> "HostWildcardCondition",
               pattern |-> "*." \o substringFrom(pattern, 2)]
         ELSE [conditionType |-> "UrlWildcardCondition",
               pattern |-> substringFrom(pattern, 1) \o "*"]
    ELSE IF indexOf(pattern, "*") < 0
    THEN [conditionType |-> "KeywordCondition", pattern |-> pattern]
    ELSE [conditionType |-> "UrlWildcardCondition", pattern |-> "http://*" \o pattern \o "*"]

\* one line of the text: an exclusive rule, a normal rule or nothing
autoProxyLine(line, matchProfileName, defaultProfileName, st) ==
    IF Len(line) = 0 \/ charAt(line, 0) = "!" \/ charAt(line, 0) = "[" THEN st
    ELSE IF charAt(line, 0) = "@" /\ charAt(line, 1) = "@"
    THEN [st EXCEPT !.exclusiveRules =
             Append(@, [condition |-> autoProxyCondition(substringFrom(line, 2)),
                        profileName |-> defaultProfileName, source |-> line])]
    ELSE [st EXCEPT !.normalRules =
             Append(@, [condition |-> autoProxyCondition(line),
                        profileName |-> matchProfileName, source |-> line])]

\* a result that keeps the normal rules in front
autoProxyResultNormalFirst(st) == st.normalRules \o st.exclusiveRules

\* the result of AutoProxy.parse
autoProxyResult(st) == st.exclusiveRules \o st.normalRules

\* the loop of AutoProxy.parse over the lines from index i on
RECURSIVE autoProxyLines(_, _, _, _, _)
autoProxyLines(lines, i, matchProfileName, defaultProfileName, st) ==
    IF i > Len(lines) THEN st
    ELSE autoProxyLines(lines, i + 1, matchProfileName, defaultProfileName,
                        autoProxyLine(trim(lines[i]), matchProfileName, defaultProfileName, st))

\* AutoProxy.parse
AutoProxyParse(text, matchProfileName, defaultProfileName) ==
    autoProxyResult(autoProxyLines(splitLines(text), 1, matchProfileName, defaultProfileName,
                                   [normalRules |-> <<>>, exclusiveRules |-> <<>>]))

-----------------------------------------------------------------------------
(* rule-list.ts: the Switchy format.                                       *)

omegaPrefix == "[SwitchyOmega Conditions"

getParser(text) ==
    IF ~strStartsWith(text, omegaPrefix)
       /\ (charAt(text, 0) = "#" \/ indexOf(text, "\n#") >= 0)
    THEN "parseLegacy" ELSE "parseOmega"

\* /(^|\n)@with\s+results?(\r|\n|$)/i matches text at index p
withResultsAt(text, p) ==
    /\ p = 0 \/ charAt(text, p - 1) = "\n"
    /\ toUpperCase(substring(text, p, p + 5)) = "@WITH"
    /\ \E q \in (p + 6)..Len(text) :
          /\ \A k \in (p + 5)..(q - 1) : charAt(text, k) \in WhiteSpace
          /\ toUpperCase(substring(text, q, q + 6)) = "RESULT"
          /\ LET atEnd(e) == e >= Len(text) \/ charAt(text, e) \in {"\r", "\n"}
             IN  atEnd(q + 6) \/ (toUpperCase(charAt(text, q + 6)) = "S" /\ atEnd(q + 7))

hasWithResults(text) == \E p \in 0..Len(text) : withResultsAt(text, p)

\* the profile a line of the rule list refers to
switchyRefOf(line, iSpace, defaultProfileName) ==
    IF iSpace < 0 THEN (IF defaultProfileName # "" THEN defaultProfileName ELSE "direct")
    ELSE trim(substringFrom(line, iSpace + 2))

switchyRefLine(line, defaultProfileName, found) ==
    IF indexOf("[;#@!", charAt(line, 0)) >= 0 THEN found
    ELSE objSet(found, switchyRefOf(line, lastIndexOf(line, " +"), defaultProfileName))

\* the loop of Switchy.directReferenceSet over the lines from index i on
RECURSIVE switchyRefLines(_, _, _, _)
switchyRefLines(lines, i, defaultProfileName, found) ==
    IF i > Len(lines) THEN found
    ELSE switchyRefLines(lines, i + 1, defaultProfileName,
                         switchyRefLine(trim(lines[i]), defaultProfileName, found))

\* Switchy.directReferenceSet: the referenced names in insertion order;
\* given is FALSE when the format gives no set (the function returns undefined)
switchyRefsOfText(text, defaultProfileName) ==
    IF getParser(text) # "parseOmega" THEN [given |-> FALSE, names |-> <<>>]
    ELSE IF ~hasWithResults(text) THEN [given |-> FALSE, names |-> <<>>]
    ELSE [given |-> TRUE,
          names |-> switchyRefLines(splitLines(text), 1, defaultProfileName, <<>>)]

SwitchyDirectReferenceSet(profile) ==
    IF profile.ruleList = "" THEN [given |-> FALSE, names |-> <<>>]
    ELSE switchyRefsOfText(trim(profile.ruleList), profile.defaultProfileName)

legacyCondition(pattern, host) ==
    IF host # "" THEN [conditionType |-> "HostWildcardCondition", pattern |-> host]
    ELSE [conditionType |-> "UrlWildcardCondition", pattern |-> pattern]

legacyWildcardOf(pattern) == legacyCondition(pattern, urlWildcard2HostWildcard(pattern))

legacyAppendStar(pattern) ==
    legacyWildcardOf(IF charAt(pattern, Len(pattern) - 1) # "*" THEN pattern \o "*" ELSE pattern)

conditionFromLegacyWildcard(pattern) ==
    IF charAt(pattern, 0) = "@" THEN legacyWildcardOf(substringFrom(pattern, 1))
    ELSE legacyAppendStar(IF indexOf(pattern, "://") <= 0 /\ charAt(pattern, 0) # "*"
                          THEN "*" \o pattern ELSE pattern)

\* a rule of parseLegacy joins exclusiveRules or normalRules
legacyPush(cond, exclusive, profile, line, st) ==
    IF exclusive
    THEN [st EXCEPT !.exclusiveRules =
             Append(@, [condition |-> cond, profileName |-> profile, source |-> line])]
    ELSE [st EXCEPT !.normalRules =
             Append(@, [condition |-> cond, profileName |-> profile, source |-> line])]

\* a line inside a section: its pattern without the leading "!"
legacyRuleLine(line, exclusive, pattern, matchProfileName, defaultProfileName, st) ==
    IF st.section = "WILDCARD"
    THEN legacyPush(conditionFromLegacyWildcard(pattern), exclusive,
                    IF exclusive THEN defaultProfileName ELSE matchProfileName, line, st)
    ELSE IF st.section = "REGEXP"
    THEN legacyPush([conditionType |-> "UrlRegexCondition", pattern |-> pattern], exclusive,
                    IF exclusive THEN defaultProfileName ELSE matchProfileName, line, st)
    ELSE st

\* one line of the text; ended is set by #END
legacyLine(line, matchProfileName, defaultProfileName, st) ==
    IF Len(line) = 0 \/ charAt(line, 0) = ";" THEN st
    ELSE IF ~st.begin THEN [st EXCEPT !.begin = (toUpperCase(line) = "#BEGIN")]
    ELSE IF toUpperCase(line) = "#END" THEN [st EXCEPT !.ended = TRUE]
    ELSE IF charAt(line, 0) = "[" /\ charAt(line, Len(line) - 1) = "]"
    THEN [st EXCEPT !.section = toUpperCase(substring(line, 1, Len(line) - 1))]
    ELSE legacyRuleLine(line, charAt(line, 0) = "!",
                        IF charAt(line, 0) = "!" THEN substringFrom(line, 1) ELSE line,
                        matchProfileName, defaultProfileName, st)

\* the loop of parseLegacy over the lines from index i on
RECURSIVE legacyLines(_, _, _, _, _)
legacyLines(lines, i, matchProfileName, defaultProfileName, st) ==
    IF i > Len(lines) \/ st.ended THEN st.exclusiveRules \o st.normalRules
    ELSE legacyLines(lines, i + 1, matchProfileName, defaultProfileName,
                     legacyLine(trim(lines[i]), matchProfileName, defaultProfileName, st))

parseLegacy(text, matchProfileName, defaultProfileName) ==
    legacyLines(splitLines(text), 1, matchProfileName, defaultProfileName,
                [normalRules |-> <<>>, exclusiveRules |-> <<>>, begin |-> FALSE,
                 ended |-> FALSE, section |-> "WILDCARD"])

\* rule.note = noteForNextRule: the rule gains a note field
withNote(rule, note) == IF note # "" THEN ("note" :> note) @@ rule ELSE rule

\* parseOmega keeps rules, rulesWithDefaultProfile (defaults: their indices in
\* rules), withResult, exclusiveProfile and noteForNextRule; raised is set by a
\* throw.  `null` for a profile name, for exclusiveProfile and for
\* noteForNextRule is "": the source tests them for truthiness only.

\* a directive line: @with result(s), @note text
omegaDirective(directive, directiveValue, st) ==
    IF toUpperCase(directive) = "WITH"
    THEN [st EXCEPT !.withResult = @ \/ toUpperCase(directiveValue) \in {"RESULT", "RESULTS"}]
    ELSE IF toUpperCase(directive) = "NOTE" THEN [st EXCEPT !.note = directiveValue]
    ELSE st

\* the rule of a line once its condition is parsed
omegaPush(cond, profile, source, strict, st) ==
    IF cond = Undefined
    THEN IF strict THEN [st EXCEPT !.raised = TRUE] ELSE st
    ELSE [st EXCEPT !.rules = Append(@, withNote([condition |-> cond, profileName |-> profile,
                                                  source |-> source], st.note)),
                    !.note = "",
                    !.defaults = IF profile = "" THEN @ \cup {Len(st.rules) + 1} ELSE @]

\* a rule line `line +profile` under @with result
omegaResultLine(line, profile, strict, st) ==
    omegaPush(ConditionsFromStr(line), profile, line, strict,
              IF line = "*" THEN [st EXCEPT !.exclusiveProfile = profile] ELSE st)

\* a line that is neither empty, a header, a comment nor a directive
omegaRuleLine(line, iSpace, matchProfileName, defaultProfileName, strict, st) ==
    IF charAt(line, 0) = "!"
    THEN omegaPush(ConditionsFromStr(substringFrom(line, 1)),
                   IF st.withResult THEN "" ELSE defaultProfileName, line, strict, st)
    ELSE IF st.withResult
    THEN IF iSpace < 0
         THEN [st EXCEPT !.raised = strict]
         ELSE omegaResultLine(trim(substring(line, 0, iSpace)),
                              trim(substringFrom(line, iSpace + 2)), strict, st)
    ELSE omegaPush(ConditionsFromStr(line), matchProfileName, line, strict, st)

\* one line of the text
omegaLine(line, dSpace, matchProfileName, defaultProfileName, strict, st) ==
    IF Len(line) = 0 \/ charAt(line, 0) \in {"[", ";"} THEN st
    ELSE IF charAt(line, 0) = "@"
    THEN omegaDirective(substring(line, 1, IF dSpace < 0 THEN Len(line) ELSE dSpace),
                        IF dSpace < 0 THEN "" ELSE trim(substringFrom(line, dSpace + 1)), st)
    ELSE omegaRuleLine(line, lastIndexOf(line, " +"), matchProfileName, defaultProfileName,
                       strict, IF strict THEN [st EXCEPT !.exclusiveProfile = ""] ELSE st)

\* the loop of parseOmega over the lines from index i on
RECURSIVE omegaLines(_, _, _, _, _, _)
omegaLines(lines, i, matchProfileName, defaultProfileName, strict, st) ==
    IF i > Len(lines) \/ st.raised THEN st
    ELSE omegaLines(lines, i + 1, matchProfileName, defaultProfileName, strict,
                    omegaLine(trim(lines[i]), indexOf(trim(lines[i]), " "),
                              matchProfileName, defaultProfileName, strict, st))

\* the end of a parser that gives the rules without a profile the default
\* profile, whatever the catch-all line says
omegaFinishDefaultOnly(st, defaultProfileName, strict) ==
    IF st.raised THEN [raised |-> TRUE, rules |-> <<>>]
    ELSE IF ~st.withResult THEN [raised |-> FALSE, rules |-> st.rules]
    ELSE [raised |-> FALSE,
          rules |-> [k \in 1..Len(st.rules) |->
                        IF k \notin st.defaults THEN st.rules[k]
                        ELSE [st.rules[k] EXCEPT !.profileName = defaultProfileName]]]

\* the end of parseOmega: the rules without a profile get exclusiveProfile
omegaFinish(st, defaultProfileName, strict) ==
    IF st.raised THEN [raised |-> TRUE, rules |-> <<>>]
    ELSE IF ~st.withResult THEN [raised |-> FALSE, rules |-> st.rules]
    ELSE IF st.exclusiveProfile = "" /\ strict THEN [raised |-> TRUE, rules |-> <<>>]
    ELSE [raised |-> FALSE,
          rules |-> [k \in 1..Len(st.rules) |->
                        IF k \notin st.defaults THEN st.rules[k]
                        ELSE [st.rules[k] EXCEPT !.profileName =
                                 IF st.exclusiveProfile # "" THEN st.exclusiveProfile
                                 ELSE IF defaultProfileName # "" THEN defaultProfileName
                                 ELSE "direct"]]]

parseOmegaWith(text, matchProfileName, defaultProfileName, strict) ==
    omegaFinish(omegaLines(splitLines(text), 1, matchProfileName, defaultProfileName, strict,
                           [rules |-> <<>>, defaults |-> {}, withResult |-> FALSE,
                            exclusiveProfile |-> "", note |-> "", raised |-> FALSE]),
                defaultProfileName, strict)

\* parseOmega with its default options (lenient)
parseOmega(text, matchProfileName, defaultProfileName) ==
    parseOmegaWith(text, matchProfileName, defaultProfileName, FALSE).rules

\* Switchy.parse
SwitchyParse(text, matchProfileName, defaultProfileName) ==
    IF getParser(text) = "parseLegacy"
    THEN parseLegacy(text, matchProfileName, defaultProfileName)
    ELSE parseOmega(text, matchProfileName, defaultProfileName)

\* the RuleList registry: the parse function of a format
RuleListFormats == {"AutoProxy", "Switchy"}

RuleListParse(format, text, matchProfileName, defaultProfileName) ==
    CASE format = "AutoProxy" -> AutoProxyParse(text, matchProfileName, defaultProfileName)
      [] format = "Switchy" -> SwitchyParse(text, matchProfileName, defaultProfileName)

-----------------------------------------------------------------------------
(* profiles.ts: reference sets and matching.  A reference set, an object   *)
(* keyed by "+name" whose values are the names, is the sequence of its     *)
(* values in insertion order.                                              *)

\* the engine's call-stack limit, in frames of allReferenceSet: the recursion
\* ends with a RangeError when it is exceeded
StackLimit == 8

directReferenceSet(profile) ==
    IF ~isInclusive(profile) THEN <<>>
    ELSE IF profile.profileType \in {"SwitchProfile", "VirtualProfile"}
    THEN objSetAll(<<profile.defaultProfileName>>, ruleTargets(profile.rules))
    ELSE LET formatRefs == IF profile.ruleList # "" /\ profile.format = "Switchy"
                           THEN SwitchyDirectReferenceSet(profile)
                           ELSE [given |-> FALSE, names |-> <<>>]
         IN  IF formatRefs.given THEN formatRefs.names
             ELSE objSetAll(<<>>, <<profile.matchProfileName, profile.defaultProfileName>>)

\* The profileNotFound callbacks of the callers modelled: "none" (no callback
\* given), "null" (the callback returns null), "standin" (the PAC generator's
\* callback: a DirectProfile of the missing name) and "direct" (a callback that
\* returns the builtin direct profile).
NotFoundModes == {"none", "null", "standin", "direct"}

profileNotFound(mode, name) ==
    CASE mode = "standin" -> [name |-> name, profileType |-> "DirectProfile"]
      [] mode = "direct" -> builtinProfiles["+direct"]
      [] OTHER -> Undefined

\* allReferenceSet(profile, options, {out, profileNotFound}) called at stack
\* depth `depth`.  The result holds the reference set `out`, the names the
\* callback was called with, and whether the call stack overflowed.
RECURSIVE allReferenceSetAt(_, _, _, _, _)
RECURSIVE allReferenceLoop(_, _, _, _, _, _)

\* the callback's answer for an unresolved name
allReferenceFallback(fallback, acc) ==
    IF fallback = Undefined THEN acc ELSE [acc EXCEPT !.out = objSet(@, fallback.name)]

allReferenceResolved(resolved, profileName, opts, mode, acc, depth) ==
    IF resolved = Undefined
    THEN IF mode = "none" THEN acc
         ELSE allReferenceFallback(profileNotFound(mode, profileName),
                                   [acc EXCEPT !.notFound = @ \cup {profileName}])
    ELSE allReferenceLoop(directReferenceSet(resolved), 1, opts, mode,
                          [acc EXCEPT !.out = objSet(@, resolved.name)], depth)

allReferenceSetAt(profileName, opts, mode, acc, depth) ==
    IF depth > StackLimit \/ acc.raised THEN [acc EXCEPT !.raised = TRUE]
    ELSE allReferenceResolved(byName(profileName, opts), profileName, opts, mode, acc, depth)

\* the loop over the direct references; a RangeError ends it
allReferenceLoop(names, i, opts, mode, acc, depth) ==
    IF i > Len(names) \/ acc.raised THEN acc
    ELSE allReferenceLoop(names, i + 1, opts, mode,
                          allReferenceSetAt(names[i], opts, mode, acc, depth + 1), depth)

allReferenceSet(profileName, opts, mode) ==
    allReferenceSetAt(profileName, opts, mode,
                      [out |-> <<>>, notFound |-> {}, raised |-> FALSE], 1)

\* a scan that lets a later matching rule override an earlier one
firstMatchOverridden(rs, req) ==
    lastIndex({i \in 1..Len(rs) : ConditionsMatch(rs[i].condition, req)})

\* the first rule whose condition matches, or -1
firstMatch(rs, req) ==
    firstIndex({i \in 1..Len(rs) : ConditionsMatch(rs[i].condition, req)})

\* the first entry of `schemes` whose scheme is the request's and whose proxy is set, or -1
firstScheme(profile, req) ==
    firstIndex({i \in 1..Len(schemes) :
                   schemes[i].scheme = req.scheme /\ fixedProp(profile, schemes[i].prop) # Undefined})

\* a FixedProfile match that looks at the scheme-specific proxy before the bypassList
matchFixedSchemeFirst(profile, b, k) ==
    IF k > 0
    THEN [profileName |-> pacResult(fixedProp(profile, schemes[k].prop)),
          source |-> schemes[k].scheme,
          proxy |-> fixedProp(profile, schemes[k].prop)]
    ELSE IF b > 0
    THEN [profileName |-> pacResult(Undefined), source |-> profile.bypassList[b],
          proxy |-> [scheme |-> "direct"]]
    ELSE [profileName |-> pacResult(profile.fallbackProxy), source |-> "",
          proxy |-> profile.fallbackProxy]

\* match on a FixedProfile whose first matching bypass condition is b and whose
\* first usable scheme entry is k
matchFixed(profile, b, k) ==
    IF b > 0
    THEN [profileName |-> pacResult(Undefined), source |-> profile.bypassList[b],
          proxy |-> [scheme |-> "direct"]]
    ELSE IF k > 0
    THEN [profileName |-> pacResult(fixedProp(profile, schemes[k].prop)),
          source |-> schemes[k].scheme,
          proxy |-> fixedProp(profile, schemes[k].prop)]
    ELSE [profileName |-> pacResult(profile.fallbackProxy), source |-> "",
          proxy |-> profile.fallbackProxy]

\* match on a SwitchProfile or VirtualProfile whose first matching rule is k
matchSwitch(profile, k) ==
    IF k > 0
    THEN [profileName |-> profile.rules[k].profileName, source |-> profile.rules[k].condition]
    ELSE [profileName |-> profile.defaultProfileName]

\* match on a RuleListProfile with the parsed rules rs, of which the first matching is k
matchRuleList(profile, rs, k) ==
    IF k > 0 THEN [profileName |-> rs[k].profileName, source |-> rs[k].source]
    ELSE [profileName |-> profile.defaultProfileName]

matchParsed(profile, rs, req) == matchRuleList(profile, rs, firstMatch(rs, req))

bypassRules(bypassList) == [i \in 1..Len(bypassList) |-> [condition |-> bypassList[i]]]

\* Profiles.match(profile, request); `null` is Undefined
match(profile, req) ==
    CASE profile.profileType = "SystemProfile" -> Undefined
      [] profile.profileType = "DirectProfile" ->
            [profileName |-> "direct", proxy |-> [scheme |-> "direct"]]
      [] profile.profileType = "FixedProfile" ->
            matchFixed(profile, firstMatch(bypassRules(profile.bypassList), req),
                       firstScheme(profile, req))
      [] profile.profileType \in {"SwitchProfile", "VirtualProfile"} ->
            matchSwitch(profile, firstMatch(profile.rules, req))
      [] profile.profileType \in {"RuleListProfile", "AutoProxyRuleListProfile"} ->
            IF profile.format \notin RuleListFormats THEN Undefined
            ELSE matchParsed(profile,
                             RuleListParse(profile.format, profile.ruleList,
                                           profile.matchProfileName, profile.defaultProfileName),
                             req)
      [] profile.profileType = "PacProfile" -> Undefined

-----------------------------------------------------------------------------
(* shexp-utils.ts: the PAC generator.  The generated script is kept as its *)
(* functions: a function is its name and its statements in order, a        *)
(* statement is `if (cond) return e;` or `return e;`, and e is a string    *)
(* literal (its text between the quotes) or a call f(url, host, scheme).   *)

RECURSIVE escapeJsString(_)
escapeJsString(str) ==
    IF str = "" THEN ""
    ELSE LET c == charAt(str, 0)
         IN  (CASE c = "\\" -> "\\\\"
                [] c = "'" -> "\\'"
                [] c = "\"" -> "\\\""
                [] c = "\n" -> "\\n"
                [] c = "\r" -> "\\r"
                [] OTHER -> c) \o escapeJsString(substringFrom(str, 1))

RECURSIVE profileFunctionChars(_)
profileFunctionChars(name) ==
    IF name = "" THEN ""
    ELSE (IF isAlnum(charAt(name, 0)) THEN charAt(name, 0) ELSE "_")
         \o profileFunctionChars(substringFrom(name, 1))

\* a naming that keeps the profile name as it is
profileFunctionNameUnsanitized(name) == "profile_" \o name

profileFunctionName(name) == "profile_" \o profileFunctionChars(name)

Lit(text) == [kind |-> "lit", value |-> text]
Call(fnName) == [kind |-> "call", value |-> fnName]
Return(e) == [kind |-> "return", cond |-> "", ret |-> e]
IfReturn(condCode, e) == [kind |-> "if", cond |-> condCode, ret |-> e]
Function(fnName, body) == [fn |-> fnName, body |-> body]

\* a generator without the catch: the failed compilation leaves the test empty
compiledOrEmpty(compiled) == IF compiled.raised THEN "" ELSE compiled.code

\* PacGenerator.compileCondition: a failed compilation gives the literal false
compiledOrFalse(compiled) == IF compiled.raised THEN "false" ELSE compiled.code

compileCondition(condition) == compiledOrFalse(ConditionsCompile(condition))

generateNotFoundFunction(profileName) ==
    Function(profileFunctionName(profileName), <<Return(Lit("DIRECT"))>>)

generateDirectProfile(profile) ==
    Function(profileFunctionName(profile.name), <<Return(Lit("DIRECT"))>>)

generateSystemProfile(profile) ==
    Function(profileFunctionName(profile.name), <<Return(Lit("DIRECT"))>>)

RECURSIVE bypassChecks(_)
bypassChecks(bypassList) ==
    IF bypassList = <<>> THEN <<>>
    ELSE <<IfReturn(compileCondition(Head(bypassList)), Lit("DIRECT"))>>
         \o bypassChecks(Tail(bypassList))

RECURSIVE schemeChecks(_, _)
schemeChecks(profile, i) ==
    IF i > Len(schemes) THEN <<>>
    ELSE (IF schemes[i].scheme # "" /\ fixedProp(profile, schemes[i].prop) # Undefined
          THEN <<IfReturn("scheme === \"" \o schemes[i].scheme \o "\"",
                          Lit(escapeJsString(pacResult(fixedProp(profile, schemes[i].prop)))))>>
          ELSE <<>>) \o schemeChecks(profile, i + 1)

generateFixedProfile(profile) ==
    LET hasSchemeSpecific == profile.proxyForHttp # Undefined
                             \/ profile.proxyForHttps # Undefined
                             \/ profile.proxyForFtp # Undefined
    IN  Function(profileFunctionName(profile.name),
                 bypassChecks(profile.bypassList)
                 \o (IF hasSchemeSpecific THEN schemeChecks(profile, 1) ELSE <<>>)
                 \o <<Return(Lit(escapeJsString(pacResult(profile.fallbackProxy))))>>)

\* a PacProfile with an inline script delegates to the embedded script's
\* FindProxyForURL; the embedded text is carried as it is
generatePacProfile(profile) ==
    IF profile.pacScript # ""
    THEN Function(profileFunctionName(profile.name),
                  <<Return([kind |-> "embedded", value |-> profile.pacScript])>>)
    ELSE Function(profileFunctionName(profile.name), <<Return(Lit("DIRECT"))>>)

RECURSIVE ruleChecks(_)
ruleChecks(rs) ==
    IF rs = <<>> THEN <<>>
    ELSE <<IfReturn(compileCondition(Head(rs).condition),
                    Call(profileFunctionName(Head(rs).profileName)))>>
         \o ruleChecks(Tail(rs))

generateSwitchProfile(profile) ==
    Function(profileFunctionName(profile.name),
             ruleChecks(profile.rules)
             \o <<Return(Call(profileFunctionName(profile.defaultProfileName)))>>)

generateRuleListProfile(profile) ==
    Function(profileFunctionName(profile.name),
             (IF profile.format \in RuleListFormats /\ profile.ruleList # ""
              THEN ruleChecks(RuleListParse(profile.format, profile.ruleList,
                                            profile.matchProfileName,
                                            profile.defaultProfileName))
              ELSE <<>>)
             \o <<Return(Call(profileFunctionName(profile.defaultProfileName)))>>)

\* PacGenerator.generateProfileFunction on the generator state
\* [generatedProfiles, profileFunctions]
profileFunctionOf(profile, profileName) ==
    IF profile = Undefined THEN generateNotFoundFunction(profileName)
    ELSE CASE profile.profileType = "DirectProfile" -> generateDirectProfile(profile)
           [] profile.profileType = "SystemProfile" -> generateSystemProfile(profile)
           [] profile.profileType = "FixedProfile" -> generateFixedProfile(profile)
           [] profile.profileType = "PacProfile" -> generatePacProfile(profile)
           [] profile.profileType \in {"SwitchProfile", "VirtualProfile"} ->
                 generateSwitchProfile(profile)
           [] profile.profileType \in {"RuleListProfile", "AutoProxyRuleListProfile"} ->
                 generateRuleListProfile(profile)
           [] OTHER -> generateNotFoundFunction(profileName)

generateProfileFunction(gen, profileName, opts) ==
    IF profileName \in gen.generatedProfiles THEN gen
    ELSE [generatedProfiles |-> gen.generatedProfiles \cup {profileName},
          profileFunctions |->
              Append(gen.profileFunctions,
                     profileFunctionOf(byName(profileName, opts), profileName))]

\* the loop of generate over the reference set
RECURSIVE generateLoop(_, _, _, _, _)
generateLoop(names, i, missingProfiles, gen, opts) ==
    IF i > Len(names) THEN gen
    ELSE generateLoop(names, i + 1, missingProfiles,
            IF names[i] \in missingProfiles
            THEN [generatedProfiles |-> gen.generatedProfiles \cup {names[i]},
                  profileFunctions |->
                      Append(gen.profileFunctions, generateNotFoundFunction(names[i]))]
            ELSE generateProfileFunction(gen, names[i], opts),
            opts)

\* PacGenerator.generate(profileName): raised is TRUE when the call ends with
\* the RangeError of allReferenceSet; otherwise the script is its profile
\* functions and the profile function that FindProxyForURL calls
generateFrom(found, opts, profileName) ==
    IF found.raised THEN [raised |-> TRUE, functions |-> <<>>, main |-> ""]
    ELSE [raised |-> FALSE,
          functions |-> generateLoop(found.out, 1, found.notFound,
                                     [generatedProfiles |-> {}, profileFunctions |-> <<>>],
                                     opts).profileFunctions,
          main |-> profileFunctionName(profileName)]

generate(opts, profileName) ==
    generateFrom(allReferenceSet(profileName, opts, "standin"), opts, profileName)

-----------------------------------------------------------------------------
(* The evaluation of a generated script by a PAC engine.                   *)

\* the value of a string literal whose text between the quotes is `text`
RECURSIVE unescapeJsString(_)
unescapeJsString(text) ==
    IF text = "" THEN ""
    ELSE IF charAt(text, 0) = "\\"
         THEN (CASE charAt(text, 1) = "n" -> "\n"
                 [] charAt(text, 1) = "r" -> "\r"
                 [] OTHER -> charAt(text, 1)) \o unescapeJsString(substringFrom(text, 2))
         ELSE charAt(text, 0) \o unescapeJsString(substringFrom(text, 1))

\* the value of a compiled condition
evalCondition(code, req) ==
    CASE code = "false" -> FALSE
      [] code = "true" -> TRUE
      [] strStartsWith(code, "scheme === \"") ->
            code = "scheme === \"" \o req.scheme \o "\""

\* a function declared twice is the later declaration
lookupFunction(functions, fnName) ==
    lastIndex({i \in 1..Len(functions) : functions[i].fn = fnName})

Value(v) == [error |-> "", value |-> v]
Thrown(e) == [error |-> e, value |-> ""]

RECURSIVE runStatements(_, _, _, _, _)

callFound(functions, k, req, depth) ==
    IF k < 0 THEN Thrown("ReferenceError")
    ELSE IF depth > StackLimit THEN Thrown("RangeError")
    ELSE runStatements(functions, functions[k].body, 1, req, depth)

callFunction(functions, fnName, req, depth) ==
    callFound(functions, lookupFunction(functions, fnName), req, depth)

runStatements(functions, body, i, req, depth) ==
    IF i > Len(body) THEN Thrown("undefined")
    ELSE IF body[i].kind = "if" /\ ~evalCondition(body[i].cond, req)
         THEN runStatements(functions, body, i + 1, req, depth)
         ELSE CASE body[i].ret.kind = "lit" -> Value(unescapeJsString(body[i].ret.value))
                [] body[i].ret.kind = "call" ->
                      callFunction(functions, body[i].ret.value, req, depth + 1)

\* url.substr(0, url.indexOf(":"))
urlScheme(url) == IF indexOf(url, ":") < 0 THEN "" ELSE substring(url, 0, indexOf(url, ":"))

\* FindProxyForURL(url, host) of a generated script
FindProxyForURL(generated, url, host) ==
    callFunction(generated.functions, generated.main,
                 [url |-> url, host |-> host, scheme |-> urlScheme(url)], 1)

-----------------------------------------------------------------------------
(* The inputs of the operations.                                           *)

\* at most this many rules in a SwitchProfile of a profile collection
MaxPacRules == 1

Proxy(scheme, host, port) == [scheme |-> scheme, host |-> host, port |-> port]

DirectProfile(name) == [name |-> name, profileType |-> "DirectProfile"]

FixedProfile(name, fallbackProxy, proxyForHttp, proxyForHttps, proxyForFtp, bypassList) ==
    [name |-> name, profileType |-> "FixedProfile", fallbackProxy |-> fallbackProxy,
     proxyForHttp |-> proxyForHttp, proxyForHttps |-> proxyForHttps,
     proxyForFtp |-> proxyForFtp, bypassList |-> bypassList]

SwitchProfile(name, profileType, rs, defaultProfileName) ==
    [name |-> name, profileType |-> profileType, rules |-> rs,
     defaultProfileName |-> defaultProfileName]

RuleListProfile(name, format, ruleList, matchProfileName, defaultProfileName) ==
    [name |-> name, profileType |-> "RuleListProfile", format |-> format,
     ruleList |-> ruleList, matchProfileName |-> matchProfileName,
     defaultProfileName |-> defaultProfileName]

Condition(conditionType, pattern) == [conditionType |-> conditionType, pattern |-> pattern]

Rule(condition, profileName) == [condition |-> condition, profileName |-> profileName]

Request(url, host, scheme) == [url |-> url, host |-> host, scheme |-> scheme]

Requests ==
    { Request("http://www.example.com/", "www.example.com", "http"),
      Request("http://other.com/", "other.com", "http"),
      Request("https://example.com/", "example.com", "https"),
      Request("ftp://files.other.com/", "files.other.com", "ftp") }

\* all sequences over S of length at most n
SeqsUpTo(S, n) == UNION {[1..k -> S] : k \in 0..n}

\* the names a profile of a collection may refer to: the builtin direct
\* profile, the user profiles and a name no collection defines
PacTargets == {"direct", "A", "B", "P", "X"}

PacEntries == {"A", "B", "P", "X"}

PacRules == {Rule(Condition("HostWildcardCondition", "*.example.com"), t) : t \in PacTargets}

NoProfile == [k \in {} |-> Undefined]

\* profile A: a SwitchProfile
PacProfilesA ==
    { ("+A" :> SwitchProfile("A", "SwitchProfile", rs, d)) :
        rs \in SeqsUpTo(PacRules, MaxPacRules), d \in PacTargets }

SwitchyWithResult == "[SwitchyOmega Conditions]\n@with result\n*.example.com +P"
SwitchyPlain == "[SwitchyOmega Conditions]\n*.example.com"
AutoProxyPlain == "[AutoProxy 0.2.9]\n||example.com"

\* profile B: absent, a SwitchProfile or VirtualProfile without rules, or a RuleListProfile
PacProfilesB ==
    {NoProfile}
    \cup { ("+B" :> SwitchProfile("B", t, <<>>, d)) :
             t \in {"SwitchProfile", "VirtualProfile"}, d \in PacTargets \ {"P"} }
    \cup { ("+B" :> RuleListProfile("B", "Switchy", SwitchyWithResult, "P", "direct")),
           ("+B" :> RuleListProfile("B", "Switchy", SwitchyPlain, "P", "direct")),
           ("+B" :> RuleListProfile("B", "AutoProxy", AutoProxyPlain, "P", "direct")) }

\* profile P: absent or a FixedProfile
PacProfilesP ==
    { NoProfile,
      ("+P" :> FixedProfile("P", Proxy("http", "proxy.example.com", 8080),
                            Undefined, Undefined, Undefined, <<>>)),
      ("+P" :> FixedProfile("P", Proxy("socks5", "127.0.0.1", 1080),
                            Undefined, Proxy("https", "secure.example.com", 443), Undefined,
                            <<Condition("HostWildcardCondition", "*.other.com")>>)) }

PacCollections == {a @@ b @@ p : a \in PacProfilesA, b \in PacProfilesB, p \in PacProfilesP}

-----------------------------------------------------------------------------
(* The specification of reference resolution and PAC generation: a caller  *)
(* holds a profile collection and calls Profiles.allReferenceSet, or       *)
(* generatePacScript and then the generated FindProxyForURL.               *)

None == [none |-> TRUE]

\* no Options manager and no condition object takes part
NoObjects ==
    /\ heap = <<>>
    /\ items = <<>>
    /\ storage = <<>>
    /\ current = ""
    /\ now = 0
    /\ condObject = None
    /\ calls = 0

InitPac ==
    /\ options \in PacCollections
    /\ entry = ""
    /\ request = None
    /\ pc = "ready"
    /\ refs = None
    /\ script = None
    /\ answer = None
    /\ rules = <<>>
    /\ NoObjects

\* Profiles.allReferenceSet(profileName, options, {profileNotFound})
CallAllReferenceSet ==
    /\ pc = "ready"
    /\ \E profileName \in PacEntries, mode \in NotFoundModes :
          /\ entry' = profileName
          /\ refs' = [mode |-> mode] @@ allReferenceSet(profileName, options, mode)
    /\ pc' = "refs"
    /\ UNCHANGED <<options, request, script, answer, rules>>
    /\ UNCHANGED objVars

\* generatePacScript(options, profileName)
CallGeneratePacScript ==
    /\ pc = "ready"
    /\ \E profileName \in PacEntries :
          /\ entry' = profileName
          /\ script' = generate(options, profileName)
    /\ pc' = "generated"
    /\ UNCHANGED <<options, request, refs, answer, rules>>
    /\ UNCHANGED objVars

\* the PAC engine evaluates FindProxyForURL(url, host) of the generated script
CallFindProxyForURL ==
    /\ pc = "generated"
    /\ ~script.raised
    /\ \E req \in Requests :
          /\ request' = req
          /\ answer' = FindProxyForURL(script, req.url, req.host)
    /\ pc' = "evaluated"
    /\ UNCHANGED <<options, entry, refs, script, rules>>
    /\ UNCHANGED objVars

NextPac == CallAllReferenceSet \/ CallGeneratePacScript \/ CallFindProxyForURL

Spec == InitPac /\ [][NextPac]_vars

-----------------------------------------------------------------------------
(* Properties of reference resolution and PAC generation.                  *)

Range(f) == {f[i] : i \in DOMAIN f}

resolves(name, opts) == byName(name, opts) # Undefined

\* the names one step away from the resolved names of S
referencedBy(S, opts) ==
    UNION {Range(directReferenceSet(byName(n, opts))) : n \in {m \in S : resolves(m, opts)}}

\* the names reachable from S through directReferenceSet of resolved profiles
RECURSIVE reachableFrom(_, _)
reachableFrom(S, opts) ==
    IF referencedBy(S, opts) \subseteq S THEN S ELSE reachableFrom(S \cup referencedBy(S, opts), opts)

\* what the reference set of profileName is to hold under a profileNotFound
\* callback: the reachable names that resolve and, for each reachable name that
\* does not, the name of the callback's substitute, if it gives one
expectedReferences(profileName, opts, mode) ==
    {n \in reachableFrom({profileName}, opts) : resolves(n, opts)}
    \cup {profileNotFound(mode, n).name :
            n \in {m \in reachableFrom({profileName}, opts) :
                     ~resolves(m, opts) /\ mode \in {"standin", "direct"}}}

\* A's only target is B and B's only target is A
isTwoCycle(opts) ==
    /\ {"+A", "+B"} \subseteq DOMAIN opts
    /\ isInclusive(opts["+A"]) /\ Range(directReferenceSet(opts["+A"])) = {"B"}
    /\ isInclusive(opts["+B"]) /\ Range(directReferenceSet(opts["+B"])) = {"A"}

\* C1: allReferenceSet(entry, collection) terminates for every profile
\* collection, also when inclusive profiles reference each other in a cycle, and
\* for the cycle A -> B -> A it returns exactly the names {A, B}.
C1_AllReferenceSetTerminates ==
    pc = "refs" =>
        /\ ~refs.raised
        /\ (isTwoCycle(options) /\ entry \in {"A", "B"} => Range(refs.out) = {"A", "B"})

\* the absent names that a SwitchProfile reachable from profileName targets
missingSwitchTargets(profileName, opts) ==
    {x \in reachableFrom({profileName}, opts) :
        /\ ~resolves(x, opts)
        /\ \E n \in reachableFrom({profileName}, opts) :
              /\ resolves(n, opts)
              /\ byName(n, opts).profileType = "SwitchProfile"
              /\ x \in Range(directReferenceSet(byName(n, opts)))}

\* the script declares a function of this name whose body is `return "DIRECT";`
definesDirectStub(generated, fnName) ==
    \E k \in 1..Len(generated.functions) :
        generated.functions[k] = Function(fnName, <<Return(Lit("DIRECT"))>>)

\* C2: generatePacScript(collection, entry) does not raise when a Switch profile
\* reachable from entry has a rule target or default target that is absent from
\* the collection, and the script defines profile_<that name> with a body that
\* unconditionally returns "DIRECT".
C2_MissingTargetGetsDirectStub ==
    pc = "generated" /\ missingSwitchTargets(entry, options) # {} =>
        /\ ~script.raised
        /\ \A x \in missingSwitchTargets(entry, options) :
              definesDirectStub(script, profileFunctionName(x))

\* the names of the functions the script calls: the entry function called by
\* FindProxyForURL and the callee of every call statement
calledIn(body) == {body[i].ret.value : i \in {j \in 1..Len(body) : body[j].ret.kind = "call"}}

calledFunctions(generated) ==
    {generated.main}
    \cup UNION {calledIn(generated.functions[k].body) : k \in 1..Len(generated.functions)}

definedFunctions(generated) == {generated.functions[k].fn : k \in 1..Len(generated.functions)}

\* C3: for every collection and entry name, every profile function the generated
\* script calls (each rule target and default target emitted for Switch, Virtual
\* and RuleList profiles, and the entry function called by FindProxyForURL) is
\* defined by a function of the same script; this includes a Switchy
\* RuleListProfile under "@with result" whose rule lines all carry an explicit
\* +target, where the default call is to profile_<defaultProfileName>.
C3_CalledFunctionsAreDefined ==
    pc = "generated" /\ ~script.raised =>
        calledFunctions(script) \subseteq definedFunctions(script)

\* static matching: Profiles.match followed from the profile named profileName
\* through each chosen Switch target until a Direct or Fixed profile is reached;
\* the result is the PAC result string of the proxy selected
RECURSIVE staticMatch(_, _, _)
staticMatch(profileName, opts, req) ==
    IF byName(profileName, opts).profileType = "SwitchProfile"
    THEN staticMatch(match(byName(profileName, opts), req).profileName, opts, req)
    ELSE pacResult(match(byName(profileName, opts), req).proxy)

\* every name reachable from profileName is a Direct, Fixed or Switch profile
isStaticCollection(profileName, opts) ==
    \A n \in reachableFrom({profileName}, opts) :
        /\ resolves(n, opts)
        /\ byName(n, opts).profileType \in {"DirectProfile", "FixedProfile", "SwitchProfile"}

\* C4: for every acyclic collection of Direct, Fixed and Switch profiles and
\* every request, FindProxyForURL(url, host) of the generated script returns the
\* PAC result string of the proxy that static matching selects; a Switch rule
\* HostWildcard(*.example.com) -> Fixed(http proxy) gives "PROXY host:port" for
\* the host www.example.com and "DIRECT" for a host that no rule matches.
C4_ScriptAgreesWithStaticMatch ==
    pc = "evaluated" /\ isStaticCollection(entry, options) =>
        answer = Value(staticMatch(entry, options, request))

\* C5: allReferenceSet(entry, collection, {profileNotFound}) returns exactly the
\* names reachable from entry through directReferenceSet of resolved profiles: a
\* name that resolves is included with everything it references; a name that
\* does not resolve is left out when no callback is given or the callback
\* returns null, and otherwise the name of the callback's substitute is included.
C5_ReferenceSetIsReachableSet ==
    pc = "refs" =>
        /\ ~refs.raised
        /\ Range(refs.out) = expectedReferences(entry, options, refs.mode)

-----------------------------------------------------------------------------
(* The specification of matching: a caller holds a profile and calls       *)
(* Profiles.match with a request, or calls pacResult with a proxy.         *)

\* at most this many rules in a SwitchProfile that is matched
MaxRules == 2

\* at most this many conditions in the bypassList of a FixedProfile that is matched
MaxBypass == 1

MatchConditions ==
    { Condition("HostWildcardCondition", "*.example.com"),
      Condition("KeywordCondition", "example"),
      Condition("UrlWildcardCondition", "ftp://*") }

MatchRules == {Rule(c, t) : c \in MatchConditions, t \in {"P1", "P2", "D"}}

MatchSwitchProfiles ==
    { SwitchProfile("S", t, rs, "D") :
        t \in {"SwitchProfile", "VirtualProfile"}, rs \in SeqsUpTo(MatchRules, MaxRules) }

MatchFixedProfiles ==
    { FixedProfile("F", Proxy("socks5", "127.0.0.1", 1080), h, s, f, bypassList) :
        h \in {Undefined, Proxy("http", "proxy.example.com", 8080)},
        s \in {Undefined, Proxy("https", "secure.example.com", 443)},
        f \in {Undefined, Proxy("socks4", "ftp.example.com", 1081)},
        bypassList \in SeqsUpTo(MatchConditions, MaxBypass) }

MatchCollections ==
    {("+S" :> p) : p \in MatchSwitchProfiles} \cup {("+F" :> p) : p \in MatchFixedProfiles}

\* the proxies pacResult is called with; "socks" and "quic" are schemes it has
\* no PAC protocol for
PacResultProxies ==
    {Undefined, [scheme |-> "direct"]}
    \cup { Proxy(scheme, host, port) :
             scheme \in {"http", "https", "socks4", "socks5", "socks", "quic"},
             host \in {"h", "proxy.example.com"}, port \in {1080, 8080} }

InitMatch ==
    /\ options \in MatchCollections
    /\ entry = ""
    /\ request = None
    /\ pc = "ready"
    /\ refs = None
    /\ script = None
    /\ answer = None
    /\ rules = <<>>
    /\ NoObjects

\* Profiles.match(profile, request)
CallMatch ==
    /\ pc = "ready"
    /\ \E key \in DOMAIN options, req \in Requests :
          /\ entry' = options[key].name
          /\ request' = req
          /\ answer' = match(options[key], req)
    /\ pc' = "matched"
    /\ UNCHANGED <<options, refs, script, rules>>
    /\ UNCHANGED objVars

\* pacResult(proxy); the proxy is kept in `request`
CallPacResult ==
    /\ pc = "ready"
    /\ \E proxy \in PacResultProxies :
          /\ request' = proxy
          /\ answer' = pacResult(proxy)
    /\ pc' = "pacResult"
    /\ UNCHANGED <<options, entry, refs, script, rules>>
    /\ UNCHANGED objVars

NextMatch == CallMatch \/ CallPacResult

SpecMatch == InitMatch /\ [][NextMatch]_vars

-----------------------------------------------------------------------------
(* The specification of rule-list parsing: a caller holds the text of an   *)
(* AutoProxy rule list and calls RuleList.AutoProxy.parse.                 *)

\* at most this many lines in a rule list text
MaxLines == 3

AutoProxyVocabulary ==
    { "||blocked.com", "@@||good.com", "  @@|http://ok.com/ ", "keyword", "!comment",
      "http://*.wild.com", "[AutoProxy 0.2.9]" }

\* the base64 forms of "[AutoProxy 0.2.9]\n@@||a.com\n||b.com", of
\* "[AutoProxy]\n||b.com" and of "[AutoProxy 0.2.9]\n!c\nkw\n@@x*"
EncodedTexts ==
    { "W0F1dG9Qcm94eSAwLjIuOV0KQEB8fGEuY29tCnx8Yi5jb20=",
      "W0F1dG9Qcm94eV0KfHxiLmNvbQ==",
      "W0F1dG9Qcm94eSAwLjIuOV0KIWMKa3cKQEB4Kg==" }

RuleListTexts ==
    {join(lines, "\n") : lines \in SeqsUpTo(AutoProxyVocabulary, MaxLines)} \cup EncodedTexts

InitParse ==
    /\ options = NoProfile
    /\ entry \in RuleListTexts
    /\ request = None
    /\ pc = "ready"
    /\ refs = None
    /\ script = None
    /\ answer = None
    /\ rules = <<>>
    /\ NoObjects

\* RuleList.AutoProxy.parse(text, matchProfileName, defaultProfileName)
CallAutoProxyParse ==
    /\ pc = "ready"
    /\ rules' = AutoProxyParse(entry, "proxy", "direct")
    /\ pc' = "parsed"
    /\ UNCHANGED <<options, entry, request, refs, script, answer>>
    /\ UNCHANGED objVars

NextParse == CallAutoProxyParse

SpecParse == InitParse /\ [][NextParse]_vars

-----------------------------------------------------------------------------
(* Properties of matching.                                                 *)

\* the profile Profiles.match was called with
matchedProfile == options[nameAsKey(entry)]

isSwitchMatch ==
    pc = "matched" /\ matchedProfile.profileType \in {"SwitchProfile", "VirtualProfile"}

ruleMatches(k) == ConditionsMatch(matchedProfile.rules[k].condition, request)

\* C6: Profiles.match on a SwitchProfile or VirtualProfile returns the
\* profileName of the first rule, in list order, whose condition matches the
\* request, and the defaultProfileName exactly when no rule's condition
\* matches; a later matching rule never overrides an earlier one.
C6_SwitchFirstMatchWins ==
    isSwitchMatch =>
        /\ \A k \in 1..Len(matchedProfile.rules) :
              ruleMatches(k) /\ (\A j \in 1..(k - 1) : ~ruleMatches(j)) =>
                  /\ answer.profileName = matchedProfile.rules[k].profileName
                  /\ answer.source = matchedProfile.rules[k].condition
        /\ (\A k \in 1..Len(matchedProfile.rules) : ~ruleMatches(k)) <=>
              answer = [profileName |-> matchedProfile.defaultProfileName]

\* two rules with different targets match the request and the first one is returned
C6_Witness ==
    /\ isSwitchMatch
    /\ Len(matchedProfile.rules) = 2
    /\ ruleMatches(1) /\ ruleMatches(2)
    /\ matchedProfile.rules[1].profileName = "P1"
    /\ matchedProfile.rules[2].profileName = "P2"
    /\ answer.profileName = "P1"

isFixedMatch == pc = "matched" /\ matchedProfile.profileType = "FixedProfile"

bypassMatches ==
    \E k \in 1..Len(matchedProfile.bypassList) :
        ConditionsMatch(matchedProfile.bypassList[k], request)

\* the scheme-specific proxy of the matched profile for a request scheme
schemeProxy(scheme) ==
    CASE scheme = "http" -> matchedProfile.proxyForHttp
      [] scheme = "https" -> matchedProfile.proxyForHttps
      [] scheme = "ftp" -> matchedProfile.proxyForFtp
      [] OTHER -> Undefined

\* C7: Profiles.match on a FixedProfile returns a direct proxy whenever a
\* bypassList condition matches the request, whichever proxies are configured;
\* otherwise the scheme-specific proxy for request.scheme when it is set;
\* otherwise fallbackProxy.
C7_FixedBypassSchemeFallback ==
    isFixedMatch =>
        answer.proxy = IF bypassMatches THEN [scheme |-> "direct"]
                       ELSE IF schemeProxy(request.scheme) # Undefined
                       THEN schemeProxy(request.scheme)
                       ELSE matchedProfile.fallbackProxy

\* a bypass condition matches an http request of a profile with an http proxy
C7_Witness ==
    /\ isFixedMatch
    /\ bypassMatches
    /\ request.scheme = "http"
    /\ matchedProfile.proxyForHttp # Undefined
    /\ answer.proxy = [scheme |-> "direct"]
    /\ answer.profileName = "DIRECT"

\* C10: pacResult returns "DIRECT" when no proxy is given, when the scheme is
\* 'direct' and when the scheme is not one of http, https, socks4, socks5; it
\* returns "PROXY h:p", "HTTPS h:p", "SOCKS h:p" for http, https, socks4; and for
\* socks5 exactly "SOCKS5 h:p; SOCKS h:p".
C10_PacResultTable ==
    pc = "pacResult" =>
        answer =
            IF request = Undefined THEN "DIRECT"
            ELSE CASE request.scheme = "http" ->
                        "PROXY " \o request.host \o ":" \o ToString(request.port)
                   [] request.scheme = "https" ->
                        "HTTPS " \o request.host \o ":" \o ToString(request.port)
                   [] request.scheme = "socks4" ->
                        "SOCKS " \o request.host \o ":" \o ToString(request.port)
                   [] request.scheme = "socks5" ->
                        "SOCKS5 " \o request.host \o ":" \o ToString(request.port)
                        \o "; SOCKS " \o request.host \o ":" \o ToString(request.port)
                   [] OTHER -> "DIRECT"

\* pacResult({scheme: "socks5", host: "h", port: 1080})
C10_Witness ==
    /\ pc = "pacResult"
    /\ request = Proxy("socks5", "h", 1080)
    /\ answer = "SOCKS5 h:1080; SOCKS h:1080"

-----------------------------------------------------------------------------
(* Properties of AutoProxy parsing.                                        *)

RECURSIVE trimAll(_)
trimAll(lines) == IF lines = <<>> THEN <<>> ELSE <<trim(Head(lines))>> \o trimAll(Tail(lines))

isRuleLine(line) == line # "" /\ Head(line) \notin {"!", "["}

isExclusiveLine(line) == isRuleLine(line) /\ strStartsWith(line, "@@")

isNormalLine(line) == isRuleLine(line) /\ ~strStartsWith(line, "@@")

\* the trimmed '@@' lines of the text and its other rule lines, each in input order
exclusiveLines(text) == SelectSeq(trimAll(splitLines(text)), isExclusiveLine)

normalLines(text) == SelectSeq(trimAll(splitLines(text)), isNormalLine)

\* C8: RuleList.AutoProxy.parse returns every rule of an '@@' line (target
\* defaultProfileName) before every rule of another line (target
\* matchProfileName), whatever the order of the input lines, and keeps the input
\* order inside each of the two groups.
C8_ExclusiveRulesFirst ==
    pc = "parsed" =>
        /\ Len(rules) = Len(exclusiveLines(entry)) + Len(normalLines(entry))
        /\ \A i \in 1..Len(exclusiveLines(entry)) :
              /\ rules[i].source = exclusiveLines(entry)[i]
              /\ rules[i].profileName = "direct"
        /\ \A i \in 1..Len(normalLines(entry)) :
              /\ rules[Len(exclusiveLines(entry)) + i].source = normalLines(entry)[i]
              /\ rules[Len(exclusiveLines(entry)) + i].profileName = "proxy"

\* a normal line, an '@@' line and a second normal line: the '@@' rule comes first
C8_Witness ==
    /\ pc = "parsed"
    /\ entry = "||blocked.com\n@@||good.com\nkeyword"
    /\ Len(rules) = 3
    /\ rules[1].source = "@@||good.com" /\ rules[1].profileName = "direct"
    /\ rules[2].source = "||blocked.com" /\ rules[2].profileName = "proxy"
    /\ rules[3].source = "keyword" /\ rules[3].profileName = "proxy"

\* C9: RuleList.AutoProxy.parse applied to base64-encoded rule text, recognised
\* by the magic prefix 'W0F1dG9Qcm94', yields the same rules as when applied to
\* the decoded text.
C9_EncodedTextParsesAsDecoded ==
    pc = "parsed" /\ strStartsWith(entry, magicPrefix) /\ ~atob(entry).raised =>
        rules = AutoProxyParse(atob(entry).value, "proxy", "direct")

-----------------------------------------------------------------------------
(* conditions.ts: the handlers of every condition type, the analysis cache *)
(* attached to a condition object and the string form of a condition.  A   *)
(* condition object is the record of its fields and its `cache`, the       *)
(* non-enumerable `_cache` property {tag, value}; a regular expression is  *)
(* the record of its source, a string value that may be null is Str(v).    *)

RegExp(source) == [source |-> source]
Str(v) == [str |-> v]

\* String(n) for an integer n
RECURSIVE digitsOf(_)
digitsOf(n) ==
    IF n < 10 THEN charAt(Digits, n) ELSE digitsOf(n \div 10) \o charAt(Digits, n % 10)

numberToString(n) == IF n < 0 THEN "-" \o digitsOf(-n) ELSE digitsOf(n)

\* String(v) for a number that may be NaN
numToString(v) == IF v.nan THEN "NaN" ELSE numberToString(v.value)

\* the text of a numeric field in a string concatenation
numField(condition, field) ==
    IF field \in DOMAIN condition THEN numberToString(condition[field]) ELSE "undefined"

\* condition.pattern ?? ''
patternOf(condition) == IF "pattern" \in DOMAIN condition THEN condition.pattern ELSE ""

\* String.prototype.charCodeAt(i) on ASCII text; NaN is -1
charCodeAt(s, i) ==
    IF indexOf(AsciiLow, charAt(s, i)) >= 0 /\ charAt(s, i) # "" THEN 32 + indexOf(AsciiLow, charAt(s, i))
    ELSE IF indexOf(AsciiHigh, charAt(s, i)) >= 0 /\ charAt(s, i) # "" THEN 97 + indexOf(AsciiHigh, charAt(s, i))
    ELSE -1

\* s.split(sep) for a separator of any positive length
RECURSIVE splitStrFrom(_, _, _, _)
splitStrFrom(s, sep, start, i) ==
    IF i + Len(sep) > Len(s) THEN <<substring(s, start, Len(s))>>
    ELSE IF substring(s, i, i + Len(sep)) = sep
         THEN <<substring(s, start, i)>> \o splitStrFrom(s, sep, i + Len(sep), i + Len(sep))
         ELSE splitStrFrom(s, sep, start, i + 1)

splitStr(s, sep) == splitStrFrom(s, sep, 0, 0)

\* escapeSlash: a backslash is put before every '/' that is not escaped
RECURSIVE escapeSlashFrom(_, _, _)
escapeSlashFrom(pattern, i, escaped) ==
    IF i >= Len(pattern) THEN ""
    ELSE (IF charAt(pattern, i) = "/" /\ ~escaped THEN "\\/" ELSE charAt(pattern, i))
         \o escapeSlashFrom(pattern, i + 1, charAt(pattern, i) = "\\" /\ ~escaped)

escapeSlash(pattern) == escapeSlashFrom(pattern, 0, FALSE)

LocalPattern == "<local>"

\* the cache BypassCondition.analyze starts from
EmptyBypass ==
    [host |-> Null, ip |-> Null, scheme |-> Null, url |-> Null, port |-> Null,
     normalizedPattern |-> ""]

\* lines 250-260: the URL pattern of a server with a port, or the host pattern
bypassUrlSource(cache, server, matchPort) ==
    "^" \o (IF cache.scheme # Null THEN cache.scheme.str ELSE NotColons) \o ":\\/\\/"
        \o substring(shExp2RegExp(server, FALSE), 1, Len(shExp2RegExp(server, FALSE)) - 1)
        \o ":" \o matchPort \o "\\/"

bypassFinish(cache, server, matchPort) ==
    IF matchPort # ""
    THEN [cache EXCEPT !.port = Str(matchPort),
                       !.normalizedPattern = @ \o ":" \o matchPort,
                       !.url = RegExp(bypassUrlSource(cache, server, matchPort))]
    ELSE IF server # "*"
         THEN [cache EXCEPT !.host = RegExp(shExp2RegExp(server, TRUE))]
         ELSE cache

\* lines 240-248: the normalized pattern is extended for an IP literal and
\* replaced by the server for a host name
bypassServer(cache, server, matchPort, serverIp) ==
    IF serverIp # Null
    THEN bypassFinish([cache EXCEPT !.normalizedPattern =
                          @ \o (IF serverIp.v4 THEN serverIp.address
                                ELSE "[" \o serverIp.address \o "]")],
                      serverIp.address, matchPort)
    ELSE bypassFinish([cache EXCEPT !.normalizedPattern =
                          IF charAt(server, 0) = "." THEN "*" \o server ELSE server],
                      IF charAt(server, 0) = "." THEN "*" \o server ELSE server, matchPort)

\* lines 230-238: a port is split off a server that is not an IP literal
bypassPort(cache, server, serverIp) ==
    IF serverIp = Null /\ lastIndexOf(server, ":") >= 0
    THEN bypassServer(cache, substring(server, 0, lastIndexOf(server, ":")),
                      substringFrom(server, lastIndexOf(server, ":") + 1), serverIp)
    ELSE bypassServer(cache, server, "", serverIp)

\* lines 218-227: an address with a prefix length
bypassCidr(cache, server, cidrParts) ==
    IF Len(cidrParts) > 1 /\ parseIp(cidrParts[1]) # Null /\ ~parseInt(cidrParts[2]).nan
    THEN [cache EXCEPT !.ip = [ip |-> parseIp(cidrParts[1]).address,
                               prefixLength |-> parseInt(cidrParts[2])],
                       !.normalizedPattern = @ \o parseIp(cidrParts[1]).address \o "/"
                                               \o numToString(parseInt(cidrParts[2]))]
    ELSE bypassPort(cache, server, parseIp(server))

\* lines 210-215: a scheme before '://'
bypassScheme(server, schemeParts) ==
    IF Len(schemeParts) > 1
    THEN bypassCidr([EmptyBypass EXCEPT !.scheme = Str(schemeParts[1]),
                                        !.normalizedPattern = schemeParts[1] \o "://"],
                    schemeParts[2], splitOn(schemeParts[2], "/"))
    ELSE bypassCidr(EmptyBypass, server, splitOn(server, "/"))

\* BypassCondition.analyze
bypassAnalyze(condition) ==
    IF condition.pattern = LocalPattern THEN [EmptyBypass EXCEPT !.host = Str(LocalPattern)]
    ELSE bypassScheme(condition.pattern, splitStr(condition.pattern, "://"))

isLocalHost(host) == host = "127.0.0.1" \/ host = "::1" \/ indexOf(host, ".") < 0

\* BypassCondition.match on the analysed cache c
bypassMatch(c, req) ==
    IF c.scheme # Null /\ c.scheme.str # "" /\ c.scheme.str # req.scheme THEN FALSE
    ELSE IF c.ip # Null /\ ~isIpInSubnet(req.host, c.ip.ip, c.ip.prefixLength) THEN FALSE
    ELSE IF c.host = Str(LocalPattern) THEN isLocalHost(req.host)
    ELSE IF c.host # Null /\ ~regexTest(c.host.source, req.host) THEN FALSE
    ELSE IF c.url # Null /\ ~regexTest(c.url.source, req.url) THEN FALSE
    ELSE TRUE

\* BypassCondition.str: normalizedPattern || pattern
bypassStr(condition) ==
    IF bypassAnalyze(condition).normalizedPattern # ""
    THEN bypassAnalyze(condition).normalizedPattern ELSE condition.pattern

\* the condition types whose handler has a `str` member
handlersWithStr ==
    {"TrueCondition", "BypassCondition", "IpCondition", "HostLevelsCondition",
     "WeekdayCondition", "TimeCondition"}

\* handler.str(condition)
handlerStr(condition) ==
    CASE condition.conditionType = "TrueCondition" -> ""
      [] condition.conditionType = "BypassCondition" -> bypassStr(condition)
      [] condition.conditionType = "IpCondition" ->
            condition.ip \o "/" \o numToString(condition.prefixLength)
      [] condition.conditionType = "HostLevelsCondition" ->
            numField(condition, "minValue") \o "~" \o numField(condition, "maxValue")
      [] condition.conditionType = "WeekdayCondition" ->
            IF "days" \in DOMAIN condition THEN condition.days
            ELSE numField(condition, "startDay") \o "~" \o numField(condition, "endDay")
      [] condition.conditionType = "TimeCondition" ->
            numField(condition, "startHour") \o "~" \o numField(condition, "endHour")

\* handler.str ? handler.str(condition) : condition.pattern, `undefined` being ""
strPart(condition) ==
    IF condition.conditionType \in handlersWithStr THEN handlerStr(condition)
    ELSE patternOf(condition)

\* the tag function of condCache
condTag(condition) == condition.conditionType \o "$" \o strPart(condition)

\* the outcome of a call that may throw
Raised == [raised |-> TRUE]
Returned(v) == [raised |-> FALSE, value |-> v]

\* handler.analyze(condition)
handlerAnalyze(condition) ==
    CASE condition.conditionType \in {"UrlRegexCondition", "HostRegexCondition"} ->
            Returned(RegExp(escapeSlash(condition.pattern)))
      [] condition.conditionType = "UrlWildcardCondition" ->
            Returned(RegExp(analyzeUrlWildcard(condition)))
      [] condition.conditionType = "HostWildcardCondition" ->
            Returned(RegExp(analyzeHostWildcard(condition)))
      [] condition.conditionType = "BypassCondition" -> Returned(bypassAnalyze(condition))
      [] condition.conditionType = "IpCondition" ->
            IF parseIp(unbracket(condition.ip)) = Null THEN Raised
            ELSE Returned([addr |-> parseIp(unbracket(condition.ip)),
                           normalized |-> parseIp(unbracket(condition.ip)).address])
      [] OTHER -> Returned(Null)

\* new Date(): the day of the week and the hour of the wall clock
Clock(day, hour) == [day |-> day, hour |-> hour]

weekdayMatch(condition, day) ==
    IF "days" \in DOMAIN condition /\ condition.days # ""
    THEN charCodeAt(condition.days, day) > 64
    ELSE /\ (IF "startDay" \in DOMAIN condition THEN condition.startDay ELSE 0) <= day
         /\ day <= (IF "endDay" \in DOMAIN condition THEN condition.endDay ELSE 6)

ipMatch(condition, req, analyzed) ==
    IF parseIp(req.host) = Null THEN FALSE
    ELSE IF parseIp(req.host).v4 # analyzed.addr.v4 THEN FALSE
    ELSE isIpInSubnet(req.host, condition.ip, condition.prefixLength)

\* handler.match(condition, request, cache) with cache.analyzed = analyzed
handlerMatch(condition, req, analyzed, clock) ==
    CASE condition.conditionType = "TrueCondition" -> TRUE
      [] condition.conditionType = "FalseCondition" -> FALSE
      [] condition.conditionType \in {"UrlRegexCondition", "UrlWildcardCondition"} ->
            regexTest(analyzed.source, req.url)
      [] condition.conditionType \in {"HostRegexCondition", "HostWildcardCondition"} ->
            regexTest(analyzed.source, req.host)
      [] condition.conditionType = "BypassCondition" -> bypassMatch(analyzed, req)
      [] condition.conditionType = "KeywordCondition" ->
            req.scheme = "http" /\ indexOf(req.url, condition.pattern) >= 0
      [] condition.conditionType = "IpCondition" -> ipMatch(condition, req, analyzed)
      [] condition.conditionType = "HostLevelsCondition" ->
            hostLevelsScan(condition, req.host, 0, 0)
      [] condition.conditionType = "WeekdayCondition" -> weekdayMatch(condition, clock.day)
      [] condition.conditionType = "TimeCondition" ->
            condition.startHour <= clock.hour /\ clock.hour <= condition.endHour

\* a condition as an object literal makes it: no cache attached
NewCondition(condition) == condition @@ [cache |-> Undefined]

cacheIsValid(object) == object.cache # Undefined /\ object.cache.tag = condTag(object)

\* Conditions.analyze(condition): the object after the call; an analysis that
\* throws leaves the object as it was
ConditionsAnalyze(object) ==
    IF cacheIsValid(object) \/ handlerAnalyze(object).raised THEN object
    ELSE [object EXCEPT !.cache = [tag |-> condTag(object),
                                   value |-> [analyzed |-> handlerAnalyze(object).value]]]

\* Conditions.match(condition, request): the outcome, on the object after Conditions.analyze
matchAnalyzed(object, analysed, req, clock) ==
    IF ~cacheIsValid(object) /\ handlerAnalyze(object).raised THEN Raised
    ELSE Returned(handlerMatch(object, req, analysed.cache.value.analyzed, clock))

ConditionsMatchObject(object, req, clock) ==
    matchAnalyzed(object, ConditionsAnalyze(object), req, clock)

\* Conditions.match on a condition that carries no cache
ConditionsMatchFresh(condition, req, clock) ==
    ConditionsMatchObject(NewCondition(condition), req, clock)

\* handler.abbrs of a condition type
abbrsOf(conditionType) ==
    conditionAbbrs[CHOOSE i \in 1..Len(conditionAbbrs) :
                      conditionAbbrs[i].type = conditionType].abbrs

\* handler.abbrs[(handler.abbrs.length + abbr) % handler.abbrs.length]
typeStr(conditionType, abbr) ==
    abbrsOf(conditionType)[((Len(abbrsOf(conditionType)) + abbr) % Len(abbrsOf(conditionType))) + 1]

\* lines 509-517: a pattern that can stand for itself
isBarePattern(condition) ==
    /\ abbrsOf(condition.conditionType)[1] = ""
    /\ patternOf(condition) # ""
    /\ charAt(condition.pattern, Len(condition.pattern) - 1) # ":"
    /\ indexOf(condition.pattern, " ") < 0

DefaultAbbr == -1

\* Conditions.str(condition, {abbr})
ConditionsStrAbbr(condition, abbr) ==
    IF isBarePattern(condition) THEN condition.pattern
    ELSE typeStr(condition.conditionType, abbr) \o ":"
         \o (IF strPart(condition) # "" THEN " " \o strPart(condition) ELSE "")

\* Conditions.str(condition)
ConditionsStr(condition) == ConditionsStrAbbr(condition, DefaultAbbr)

-----------------------------------------------------------------------------
(* utils.ts, profiles.ts, options.ts: profile objects, the cache attached  *)
(* to them and the Options manager.  A profile object is a record of its   *)
(* fields, its `revision` ("" when it carries none: the tag function reads *)
(* `profile.revision ?? ''`) and its `cache`, the non-enumerable `_cache`  *)
(* property {tag, value}; objects are named by references into `heap`.     *)

HexDigits == "0123456789abcdef"

\* Number.prototype.toString(16)
RECURSIVE toString16(_)
toString16(n) ==
    IF n < 16 THEN charAt(HexDigits, n)
    ELSE toString16(n \div 16) \o charAt(HexDigits, n % 16)

\* Revision.fromTime() when the clock reads `time`
RevisionFromTime(time) == toString16(time)

\* a profile as Profiles.create or an object literal makes it: no revision, no cache
NewObject(profile) == profile @@ [revision |-> "", cache |-> Undefined]

\* the value {} that directReferenceSet hands to profileCache.get
EmptyCacheValue == [given |-> FALSE, names |-> <<>>]

\* the tag function of profileCache
profileTag(profile) == profile.revision

\* AttachedCache.get(profile, {}): the object after the call; the value returned is its cache.value
profileCacheGet(profile) ==
    IF profile.cache # Undefined /\ profile.cache.tag = profileTag(profile) THEN profile
    ELSE [profile EXCEPT !.cache = [tag |-> profileTag(profile), value |-> EmptyCacheValue]]

\* AttachedCache.drop(profile)
dropCache(profile) == [profile EXCEPT !.cache = Undefined]

\* directReferenceSet after profileCache.get: the cached set, or the computed set that is then cached
directReferenceSetFrom(got) ==
    IF got.cache.value.given THEN [profile |-> got, refs |-> got.cache.value.names]
    ELSE [profile |-> [got EXCEPT !.cache.value =
                          [given |-> TRUE, names |-> directReferenceSet(got)]],
          refs |-> directReferenceSet(got)]

\* directReferenceSet(profile) on a profile object: the object after the call and the set returned
cachedDirectReferenceSet(profile) ==
    IF ~isInclusive(profile) THEN [profile |-> profile, refs |-> <<>>]
    ELSE directReferenceSetFrom(profileCacheGet(profile))

\* updateRevision(profile) when the clock reads `time`
updateRevision(profile, time) == [profile EXCEPT !.revision = RevisionFromTime(time)]

replaceRuleTargets(rs, fromName, toName) ==
    [i \in 1..Len(rs) |->
        IF rs[i].profileName = fromName THEN [rs[i] EXCEPT !.profileName = toName] ELSE rs[i]]

replaceName(name, fromName, toName) == IF name = fromName THEN toName ELSE name

\* a replaceRef that rewrites the default target only
replaceRefDefaultOnly(profile, fromName, toName) ==
    IF ~isInclusive(profile) THEN [profile |-> profile, changed |-> FALSE]
    ELSE [profile |-> [profile EXCEPT
                          !.defaultProfileName = replaceName(@, fromName, toName)],
          changed |-> profile.defaultProfileName = fromName]

\* replaceRef(profile, fromName, toName): the object after the call and the value returned
replaceRef(profile, fromName, toName) ==
    IF ~isInclusive(profile) THEN [profile |-> profile, changed |-> FALSE]
    ELSE IF profile.profileType \in {"SwitchProfile", "VirtualProfile"}
    THEN [profile |-> [profile EXCEPT
                          !.defaultProfileName = replaceName(@, fromName, toName),
                          !.rules = replaceRuleTargets(@, fromName, toName)],
          changed |-> \/ profile.defaultProfileName = fromName
                      \/ \E i \in 1..Len(profile.rules) : profile.rules[i].profileName = fromName]
    ELSE [profile |-> [profile EXCEPT
                          !.defaultProfileName = replaceName(@, fromName, toName),
                          !.matchProfileName = replaceName(@, fromName, toName)],
          changed |-> \/ profile.defaultProfileName = fromName
                      \/ profile.matchProfileName = fromName]

\* no object
NoRef == 0

\* the objects of builtinProfiles
builtinRefs == [k \in {"+direct", "+system"} |-> IF k = "+direct" THEN 1 ELSE 2]

\* a byName that looks into the collection before the builtin profiles
byNameRefCollectionFirst(profileName, opts) ==
    IF nameAsKey(profileName) \in DOMAIN opts THEN opts[nameAsKey(profileName)]
    ELSE IF nameAsKey(profileName) \in DOMAIN builtinRefs
    THEN builtinRefs[nameAsKey(profileName)]
    ELSE NoRef

\* byName(profileName, options) on objects: the reference returned, NoRef for undefined
byNameRef(profileName, opts) ==
    IF nameAsKey(profileName) \in DOMAIN builtinRefs THEN builtinRefs[nameAsKey(profileName)]
    ELSE IF nameAsKey(profileName) \in DOMAIN opts THEN opts[nameAsKey(profileName)]
    ELSE NoRef

\* Options.profiles(): the objects Profiles.each visits
OptionsProfiles(opts) == {opts[k] : k \in DOMAIN opts} \cup {builtinRefs[k] : k \in DOMAIN builtinRefs}

\* obj[key] = ref
setKey(obj, key, ref) == (key :> ref) @@ obj

\* delete obj[key]
deleteKey(obj, key) == [k \in DOMAIN obj \ {key} |-> obj[k]]

\* renameProfile: the heap after `profile.name = newName; updateRevision(profile)`
renameNamed(h, p, newName, time) ==
    [h EXCEPT ![p] = updateRevision([@ EXCEPT !.name = newName], time)]

\* renameProfile: the profiles of Options.profiles() in which replaceRef changes something
renameChanged(h, opts, oldName, newName) ==
    {q \in OptionsProfiles(opts) : replaceRef(h[q], oldName, newName).changed}

\* renameProfile: the heap after the loop over Options.profiles()
renameReplaced(h, changed, oldName, newName, time) ==
    [q \in 1..Len(h) |->
        IF q \in changed THEN updateRevision(replaceRef(h[q], oldName, newName).profile, time)
        ELSE h[q]]

\* renameProfile: the storage after the loop has stored every changed profile under its name
renameStored(st, h, changed) ==
    [k \in DOMAIN st \cup {nameAsKey(h[q].name) : q \in changed} |->
        IF \E q \in changed : nameAsKey(h[q].name) = k
        THEN CHOOSE q \in changed : nameAsKey(h[q].name) = k
        ELSE st[k]]

-----------------------------------------------------------------------------
(* The specification of the Options manager: a caller creates profiles,    *)
(* adds, removes and renames them through Options, keeps the objects and   *)
(* mutates them in place, and calls Profiles.byName, replaceRef,           *)
(* updateRevision, dropCache and directReferenceSet on them.               *)

\* at most this many profile objects are created
MaxProfiles == 2

\* the caller makes at most this many calls
MaxCalls == 4

\* the clock reads StartTime at first and never more than MaxTime
StartTime == 15
MaxTime == 16

OptionConditions == {Condition("HostWildcardCondition", "*.example.com")}

SwitchyResultA == "[SwitchyOmega Conditions]\n@with result\n*.example.com +A\n* +direct"

\* the profiles a caller creates
CreatedProfiles ==
    { FixedProfile(n, Proxy("http", "proxy.example.com", 8080),
                   Undefined, Undefined, Undefined, <<>>) : n \in {"A", "direct"} }
    \cup { SwitchProfile(n, "SwitchProfile", <<>>, "A") : n \in {"A", "B"} }
    \cup { SwitchProfile(n, "SwitchProfile", <<Rule(c, "A")>>, "direct") :
             n \in {"A", "B"}, c \in OptionConditions }
    \cup { RuleListProfile("B", "Switchy", text, "A", "direct") :
             text \in {SwitchyResultA, SwitchyPlain} }

\* the names the operations are called with
ProfileNames == {"direct", "A", "B", "C"}

\* the names removeProfile is called with
RemovedNames == {"A", "B"}

\* the new name of a rename and the replacement of replaceRef
NewNames == {"C", "direct"}

\* a new target written into a profile
NewTargets == {"B", "direct"}

InitOptions ==
    /\ options = NoProfile
    /\ entry = None
    /\ request = None
    /\ pc = "ready"
    /\ refs = None
    /\ script = None
    /\ answer = None
    /\ rules = <<>>
    /\ heap = <<NewObject(builtinProfiles["+direct"]), NewObject(builtinProfiles["+system"])>>
    /\ items = NoProfile
    /\ storage = NoProfile
    /\ current = ""
    /\ now = StartTime
    /\ condObject = None
    /\ calls = 0

pacVars == <<options, request, refs, script, rules>>

\* the profile objects the caller created
CreatedRefs == (Cardinality(DOMAIN builtinRefs) + 1)..Len(heap)

\* Options.addProfile(profile) with a profile just created
AddProfile ==
    /\ calls < MaxCalls /\ calls' = calls + 1
    /\ Len(heap) < Cardinality(DOMAIN builtinRefs) + MaxProfiles
    /\ \E created \in CreatedProfiles, time \in now..MaxTime :
          /\ now' = time
          /\ heap' = Append(heap, updateRevision(NewObject(created), time))
          /\ items' = setKey(items, nameAsKey(created.name), Len(heap) + 1)
          /\ storage' = setKey(storage, nameAsKey(created.name), Len(heap) + 1)
    /\ pc' = "ready"
    /\ entry' = None
    /\ answer' = None
    /\ UNCHANGED <<current, condObject>>
    /\ UNCHANGED pacVars

\* Options.removeProfile(name)
RemoveProfile ==
    /\ calls < MaxCalls /\ calls' = calls + 1
    /\ \E name \in RemovedNames :
          /\ items' = deleteKey(items, nameAsKey(name))
          /\ storage' = deleteKey(storage, nameAsKey(name))
    /\ pc' = "ready"
    /\ entry' = None
    /\ answer' = None
    /\ UNCHANGED <<heap, current, now, condObject>>
    /\ UNCHANGED pacVars

\* Options.renameProfile(oldName, newName) of a profile that resolves to the
\* object p, the clock reading `time` throughout
renameProfile(p, oldName, newName, time) ==
    /\ heap' = renameReplaced(renameNamed(heap, p, newName, time),
                              renameChanged(renameNamed(heap, p, newName, time),
                                            items, oldName, newName),
                              oldName, newName, time)
    /\ items' = setKey(deleteKey(items, nameAsKey(oldName)), nameAsKey(newName), p)
    /\ storage' = setKey(deleteKey(renameStored(storage, heap',
                                                renameChanged(renameNamed(heap, p, newName, time),
                                                              items, oldName, newName)),
                                   nameAsKey(oldName)),
                         nameAsKey(newName), p)
    /\ current' = IF current = oldName THEN newName ELSE current
    /\ now' = time

\* Options.renameProfile(oldName, newName); it throws ProfileNotExistError
\* when oldName does not resolve
RenameProfile ==
    /\ calls < MaxCalls /\ calls' = calls + 1
    /\ \E oldName \in ProfileNames : \E newName \in NewNames \ {oldName} :
          /\ entry' = [oldName |-> oldName, newName |-> newName,
                       ref |-> byNameRef(oldName, items)]
          /\ IF byNameRef(oldName, items) = NoRef
             THEN /\ pc' = "renameProfile threw"
                  /\ UNCHANGED <<heap, items, storage, current, now>>
             ELSE /\ pc' = "renameProfile"
                  /\ \E time \in now..MaxTime :
                        renameProfile(byNameRef(oldName, items), oldName, newName, time)
    /\ answer' = None
    /\ UNCHANGED condObject
    /\ UNCHANGED pacVars

\* Profiles.replaceRef(profile, fromName, toName); the object before the call is kept in `entry`
CallReplaceRef ==
    /\ calls < MaxCalls /\ calls' = calls + 1
    /\ \E p \in CreatedRefs, fromName \in ProfileNames : \E toName \in NewNames \ {fromName} :
          /\ heap' = [heap EXCEPT ![p] = replaceRef(@, fromName, toName).profile]
          /\ answer' = replaceRef(heap[p], fromName, toName).changed
          /\ entry' = [ref |-> p, fromName |-> fromName, toName |-> toName, before |-> heap[p]]
    /\ pc' = "replaceRef"
    /\ UNCHANGED <<items, storage, current, now, condObject>>
    /\ UNCHANGED pacVars

\* Profiles.byName(profileName, options)
CallByName ==
    /\ calls < MaxCalls /\ calls' = calls + 1
    /\ \E profileName \in ProfileNames :
          /\ entry' = [name |-> profileName]
          /\ answer' = byNameRef(profileName, items)
    /\ pc' = "byName"
    /\ UNCHANGED <<heap, items, storage, current, now, condObject>>
    /\ UNCHANGED pacVars

NextOptions ==
    \/ AddProfile
    \/ RemoveProfile
    \/ RenameProfile
    \/ CallReplaceRef
    \/ CallByName

SpecOptions == InitOptions /\ [][NextOptions]_vars

-----------------------------------------------------------------------------
(* The specification of the reference cache: a caller holds an inclusive   *)
(* profile it created, mutates it in place and calls updateRevision,       *)
(* dropCache and directReferenceSet on it, while the clock advances.       *)

InitCache ==
    /\ options = NoProfile
    /\ entry = None
    /\ request = None
    /\ pc = "ready"
    /\ refs = None
    /\ script = None
    /\ answer = None
    /\ rules = <<>>
    /\ \E created \in {c \in CreatedProfiles : isInclusive(c)} :
          heap = <<NewObject(builtinProfiles["+direct"]), NewObject(builtinProfiles["+system"]),
                   NewObject(created)>>
    /\ items = NoProfile
    /\ storage = NoProfile
    /\ current = ""
    /\ now = StartTime
    /\ condObject = None
    /\ calls = 0

\* the caller writes profile.defaultProfileName of an inclusive profile it holds
SetDefaultProfileName ==
    /\ \E p \in CreatedRefs, target \in NewTargets :
          /\ isInclusive(heap[p])
          /\ heap[p].defaultProfileName # target
          /\ heap' = [heap EXCEPT ![p].defaultProfileName = target]
          /\ entry' = [ref |-> p]
    /\ pc' = "mutated"
    /\ answer' = None
    /\ UNCHANGED <<items, storage, current, now, condObject, calls>>
    /\ UNCHANGED pacVars

\* the caller writes rules[0].profileName of a SwitchProfile it holds
SetRuleProfileName ==
    /\ \E p \in CreatedRefs, target \in NewTargets :
          /\ heap[p].profileType \in {"SwitchProfile", "VirtualProfile"}
          /\ Len(heap[p].rules) > 0
          /\ heap[p].rules[1].profileName # target
          /\ heap' = [heap EXCEPT ![p].rules[1].profileName = target]
          /\ entry' = [ref |-> p]
    /\ pc' = "mutated"
    /\ answer' = None
    /\ UNCHANGED <<items, storage, current, now, condObject, calls>>
    /\ UNCHANGED pacVars

\* Profiles.updateRevision(profile): the clock is read
CallUpdateRevision ==
    /\ \E p \in CreatedRefs, time \in now..MaxTime :
          /\ heap' = [heap EXCEPT ![p] = updateRevision(@, time)]
          /\ now' = time
          /\ entry' = [ref |-> p]
    /\ pc' = "updateRevision"
    /\ answer' = None
    /\ UNCHANGED <<items, storage, current, condObject, calls>>
    /\ UNCHANGED pacVars

\* Profiles.dropCache(profile)
CallDropCache ==
    /\ \E p \in CreatedRefs :
          /\ heap[p].cache # Undefined
          /\ heap' = [heap EXCEPT ![p] = dropCache(@)]
          /\ entry' = [ref |-> p]
    /\ pc' = "dropCache"
    /\ answer' = None
    /\ UNCHANGED <<items, storage, current, now, condObject, calls>>
    /\ UNCHANGED pacVars

\* Profiles.directReferenceSet(profile)
CallDirectReferenceSet ==
    /\ \E p \in CreatedRefs :
          /\ heap' = [heap EXCEPT ![p] = cachedDirectReferenceSet(@).profile]
          /\ answer' = cachedDirectReferenceSet(heap[p]).refs
          /\ entry' = [ref |-> p]
    /\ pc' = "directReferenceSet"
    /\ UNCHANGED <<items, storage, current, now, condObject, calls>>
    /\ UNCHANGED pacVars

NextCache ==
    \/ SetDefaultProfileName
    \/ SetRuleProfileName
    \/ CallUpdateRevision
    \/ CallDropCache
    \/ CallDirectReferenceSet

SpecCache == InitCache /\ [][NextCache]_vars

-----------------------------------------------------------------------------
(* The condition engine on a condition object the caller holds: the caller *)
(* makes a condition, matches requests against it, writes its pattern in   *)
(* place and takes it through Conditions.str and Conditions.fromStr.       *)

\* literal domains D of host patterns '*.D'
LiteralDomains == {"example.com", "com", "b.example.com"}

HostWildcardPatterns == {"*." \o d : d \in LiteralDomains} \cup {"example.com", "a b", "x:"}

BypassPatterns ==
    {"example.com", "http://example.com", "https://example.com:8080", "example.com:8080",
     "<local>", "10.0.0.0/8", "http://10.0.0.0/8"}

FieldConditions ==
    { [conditionType |-> "TrueCondition"],
      [conditionType |-> "FalseCondition"],
      [conditionType |-> "IpCondition", ip |-> "10.0.0.0", prefixLength |-> Num(8)],
      [conditionType |-> "IpCondition", ip |-> "10.1.2.3", prefixLength |-> Num(32)],
      [conditionType |-> "HostLevelsCondition", minValue |-> 0, maxValue |-> 1],
      [conditionType |-> "HostLevelsCondition", minValue |-> 1, maxValue |-> 2],
      [conditionType |-> "WeekdayCondition", startDay |-> 1, endDay |-> 5],
      [conditionType |-> "WeekdayCondition", days |-> "SMTWtfs"],
      [conditionType |-> "WeekdayCondition", days |-> "-MTWTF-"],
      [conditionType |-> "TimeCondition", startHour |-> 9, endHour |-> 17] }

PatternConditions ==
    {Condition("HostWildcardCondition", p) : p \in HostWildcardPatterns}
    \cup {Condition("BypassCondition", p) : p \in BypassPatterns}
    \cup {Condition("UrlWildcardCondition", p) : p \in {"*example*", "http://*.example.com/*"}}
    \cup {Condition("UrlRegexCondition", p) : p \in {"^https://", "example\\.com/path"}}
    \cup {Condition("HostRegexCondition", p) : p \in {"^example\\.com$", "example"}}
    \cup {Condition("KeywordCondition", p) : p \in {"example", "path"}}
    \cup {Condition("FalseCondition", "test")}

ConditionInputs == FieldConditions \cup PatternConditions

\* the patterns the caller writes into a condition of the given type
patternsOfType(conditionType) ==
    {c.pattern : c \in {d \in PatternConditions : d.conditionType = conditionType}}

ConditionRequests ==
    { Request("http://example.com/", "example.com", "http"),
      Request("https://example.com/", "example.com", "https"),
      Request("https://example.com:8080/", "example.com", "https"),
      Request("http://www.example.com/path", "www.example.com", "http"),
      Request("http://a.b.example.com/", "a.b.example.com", "http"),
      Request("http://otherexample.com/", "otherexample.com", "http"),
      Request("https://example.org/", "example.org", "https"),
      Request("http://com/", "com", "http"),
      Request("http://10.1.2.3/", "10.1.2.3", "http") }

\* Monday at 10 and Sunday at 20
Clocks == {Clock(1, 10), Clock(0, 20)}

\* the fields of a condition object without the attached cache
withoutCache(object) == [f \in DOMAIN object \ {"cache"} |-> object[f]]

InitConditions ==
    /\ options = NoProfile
    /\ entry = None
    /\ request = None
    /\ pc = "ready"
    /\ refs = None
    /\ script = None
    /\ answer = None
    /\ rules = <<>>
    /\ NoObjects

heapVars == <<heap, items, storage, current, now, calls>>
genVars == <<options, refs, script, rules>>

\* the caller writes a condition as an object literal
NewConditionObject ==
    /\ \E c \in ConditionInputs : condObject' = NewCondition(c)
    /\ pc' = "condition"
    /\ entry' = None
    /\ request' = None
    /\ answer' = None
    /\ UNCHANGED heapVars
    /\ UNCHANGED genVars

\* the caller writes condition.pattern of the object it holds
SetPattern ==
    /\ condObject # None
    /\ "pattern" \in DOMAIN condObject
    /\ \E p \in patternsOfType(condObject.conditionType) \ {condObject.pattern} :
          condObject' = [condObject EXCEPT !.pattern = p]
    /\ pc' = "mutated"
    /\ entry' = None
    /\ request' = None
    /\ answer' = None
    /\ UNCHANGED heapVars
    /\ UNCHANGED genVars

\* Conditions.match(condition, request) while the clock reads clock
CallConditionsMatch ==
    /\ condObject # None
    /\ \E req \in ConditionRequests, clock \in Clocks :
          /\ answer' = ConditionsMatchObject(condObject, req, clock)
          /\ request' = req
          /\ entry' = clock
    /\ condObject' = ConditionsAnalyze(condObject)
    /\ pc' = "Conditions.match"
    /\ UNCHANGED heapVars
    /\ UNCHANGED genVars

\* Conditions.fromStr(Conditions.str(condition))
CallStrFromStr ==
    /\ condObject # None
    /\ entry' = ConditionsStr(condObject)
    /\ answer' = ConditionsFromStr(ConditionsStr(condObject))
    /\ request' = None
    /\ pc' = "Conditions.fromStr"
    /\ UNCHANGED condObject
    /\ UNCHANGED heapVars
    /\ UNCHANGED genVars

NextConditions ==
    \/ NewConditionObject
    \/ SetPattern
    \/ CallConditionsMatch
    \/ CallStrFromStr

SpecConditions == InitConditions /\ [][NextConditions]_vars

-----------------------------------------------------------------------------
(* The pattern and IP utilities, called with arguments of the caller.      *)

ShExpPatterns ==
    {"", "*", "**", "a", "*a", "a*", "*a*", "**a**", "a*b", "?", "a.b",
     "*.example.com", "test?.com", "*example*"}

Ipv4Literals ==
    {"0.0.0.0", "1.2.3.4", "10.0.0.1", "10.0.1.1", "128.0.0.1", "192.168.1.77",
     "192.168.1.78", "255.255.255.255"}

PrefixLengths == 0..WordBits

PacUrls ==
    { "http://example.com/proxy.pac", "https://example.com/file:.pac", "file:///etc/proxy.pac",
      "FILE:///C:/proxy.pac", "File:proxy.pac", "files://example.com/proxy.pac", "file", "" }

\* one profile of every profile type
TypedProfiles ==
    { builtinProfiles["+direct"], builtinProfiles["+system"],
      [name |-> "proxy", profileType |-> "FixedProfile"],
      [name |-> "auto", profileType |-> "SwitchProfile", rules |-> <<>>,
       defaultProfileName |-> "direct"],
      [name |-> "virtual", profileType |-> "VirtualProfile", defaultProfileName |-> "direct"],
      [name |-> "list", profileType |-> "RuleListProfile", ruleList |-> "",
       matchProfileName |-> "direct", defaultProfileName |-> "direct"],
      [name |-> "gfw", profileType |-> "AutoProxyRuleListProfile", ruleList |-> "",
       matchProfileName |-> "direct", defaultProfileName |-> "direct"],
      [name |-> "script", profileType |-> "PacProfile",
       pacScript |-> "function FindProxyForURL(url, host) { return 'DIRECT'; }"] }
    \cup {[name |-> "pac", profileType |-> "PacProfile", pacUrl |-> u] : u \in PacUrls}

\* the arguments of one call
UtilsCalls ==
    {[pattern |-> p, trimAsterisk |-> t] : p \in ShExpPatterns, t \in BOOLEAN}
    \cup {[ip |-> a, subnet |-> b, prefixLength |-> n] :
            a \in Ipv4Literals, b \in Ipv4Literals, n \in PrefixLengths}
    \cup {[profile |-> p] : p \in TypedProfiles}

InitUtils ==
    /\ options = NoProfile
    /\ entry \in UtilsCalls
    /\ request = None
    /\ pc = "ready"
    /\ refs = None
    /\ script = None
    /\ answer = None
    /\ rules = <<>>
    /\ NoObjects

CallShExp2RegExp ==
    /\ pc = "ready"
    /\ "pattern" \in DOMAIN entry
    /\ answer' = shExp2RegExp(entry.pattern, entry.trimAsterisk)
    /\ pc' = "shExp2RegExp"
    /\ UNCHANGED <<entry, request, condObject>>
    /\ UNCHANGED heapVars
    /\ UNCHANGED genVars

CallIsIpInSubnet ==
    /\ pc = "ready"
    /\ "subnet" \in DOMAIN entry
    /\ answer' = isIpInSubnet(entry.ip, entry.subnet, Num(entry.prefixLength))
    /\ pc' = "isIpInSubnet"
    /\ UNCHANGED <<entry, request, condObject>>
    /\ UNCHANGED heapVars
    /\ UNCHANGED genVars

CallIsIncludable ==
    /\ pc = "ready"
    /\ "profile" \in DOMAIN entry
    /\ answer' = isIncludable(entry.profile)
    /\ pc' = "isIncludable"
    /\ UNCHANGED <<entry, request, condObject>>
    /\ UNCHANGED heapVars
    /\ UNCHANGED genVars

NextUtils == CallShExp2RegExp \/ CallIsIpInSubnet \/ CallIsIncludable

SpecUtils == InitUtils /\ [][NextUtils]_vars

-----------------------------------------------------------------------------
(* Properties of the Options manager and of the reference cache.           *)

\* C11: byName(name, collection) resolves the two builtin profiles before the
\* collection: for 'direct' and 'system' it returns the builtin profile even when
\* the collection holds an entry under '+direct' or '+system', and for any other
\* name the entry under '+' + name, or undefined.
C11_ByNameBuiltinFirst ==
    pc = "byName" =>
        /\ entry.name = "direct" =>
              answer = builtinRefs["+direct"] /\ heap[answer].profileType = "DirectProfile"
        /\ entry.name = "system" =>
              answer = builtinRefs["+system"] /\ heap[answer].profileType = "SystemProfile"
        /\ entry.name \notin {"direct", "system"} =>
              answer = IF nameAsKey(entry.name) \in DOMAIN items
                       THEN items[nameAsKey(entry.name)] ELSE NoRef

\* the collection holds its own profile under '+direct' and byName('direct')
\* returns the builtin one
C11_Witness ==
    /\ pc = "byName"
    /\ entry.name = "direct"
    /\ "+direct" \in DOMAIN items
    /\ items["+direct"] # builtinRefs["+direct"]
    /\ heap[items["+direct"]].profileType = "FixedProfile"
    /\ answer = builtinRefs["+direct"]

\* the default target, the rule targets and the match target of a profile
targetsOf(profile) ==
    IF ~isInclusive(profile) THEN {}
    ELSE IF profile.profileType \in {"SwitchProfile", "VirtualProfile"}
    THEN {profile.defaultProfileName} \cup {profile.rules[i].profileName : i \in 1..Len(profile.rules)}
    ELSE {profile.defaultProfileName, profile.matchProfileName}

\* C12: replaceRef(profile, fromName, toName) with fromName # toName leaves no
\* default target, rule target or match target of an inclusive profile equal to
\* fromName, returns true exactly when at least one target was rewritten, and
\* returns false and changes nothing for a profile that is not inclusive.
C12_ReplaceRefRewritesTargets ==
    pc = "replaceRef" =>
        IF isInclusive(entry.before)
        THEN /\ entry.fromName \notin targetsOf(heap[entry.ref])
             /\ answer <=> entry.fromName \in targetsOf(entry.before)
             /\ answer <=> heap[entry.ref] # entry.before
             /\ targetsOf(heap[entry.ref]) =
                   {replaceName(t, entry.fromName, entry.toName) : t \in targetsOf(entry.before)}
        ELSE answer = FALSE /\ heap[entry.ref] = entry.before

\* a SwitchProfile whose rule target is fromName and whose default target is not
C12_Witness ==
    /\ pc = "replaceRef"
    /\ entry.before.profileType = "SwitchProfile"
    /\ Len(entry.before.rules) = 1
    /\ entry.before.rules[1].profileName = entry.fromName
    /\ entry.before.defaultProfileName # entry.fromName
    /\ heap[entry.ref].rules[1].profileName = entry.toName
    /\ answer = TRUE

\* C13: after Options.renameProfile(oldName, newName) completes, oldName no
\* longer resolves to a profile, newName resolves to the renamed profile, and
\* directReferenceSet of every profile of the collection excludes oldName.
C13_RenameLeavesNoReference ==
    pc = "renameProfile" =>
        /\ byNameRef(entry.oldName, items) = NoRef
        /\ byNameRef(entry.newName, items) = entry.ref
        /\ heap[entry.ref].name = entry.newName
        /\ \A q \in OptionsProfiles(items) :
              entry.oldName \notin Range(cachedDirectReferenceSet(heap[q]).refs)

\* C14: the direct-reference cache is invalidated by revision: after
\* updateRevision(profile) has been called on an inclusive profile, the next
\* directReferenceSet(profile) returns the set computed from the profile's
\* current fields, not a set cached before a mutation.
C14_RevisionInvalidatesCache ==
    pc = "updateRevision" =>
        cachedDirectReferenceSet(heap[entry.ref]).refs = directReferenceSet(heap[entry.ref])

\* C15: caching is never observable: whatever mutations and directReferenceSet
\* calls came before, directReferenceSet(profile) returns the set that a
\* computation from scratch on the profile's current fields returns.
C15_CacheNeverObservable ==
    pc = "directReferenceSet" => answer = directReferenceSet(heap[entry.ref])

-----------------------------------------------------------------------------
(* Properties of the condition engine and of the pattern and IP utilities. *)

\* C16: conditions with equal cache tags match alike: the condition the
\* caller holds matches every request as any condition with the same tag does,
\* and Conditions.match on a condition whose pattern was written in place (a
\* BypassCondition changed from 'example.com' to 'http://example.com') returns
\* what an analysis of the present fields returns, never the result of matcher
\* state analysed from the old pattern.
C16_TagEqualityImpliesSameMatch ==
    pc = "Conditions.match" =>
        /\ answer = ConditionsMatchFresh(withoutCache(condObject), request, entry)
        /\ \A c \in ConditionInputs :
              condTag(c) = condTag(condObject) =>
                  ConditionsMatchFresh(c, request, entry)
                      = ConditionsMatchFresh(withoutCache(condObject), request, entry)

\* C17: Conditions.fromStr(Conditions.str(c)) is a condition that matches
\* exactly the requests c matches, for conditions of each of the 12 types.
C17_StrFromStrRoundTrip ==
    pc = "Conditions.fromStr" =>
        /\ answer # Undefined
        /\ \A req \in ConditionRequests, clock \in Clocks :
              ConditionsMatchFresh(answer, req, clock)
                  = ConditionsMatchFresh(withoutCache(condObject), req, clock)

\* String.prototype.endsWith
endsWith(s, suffix) ==
    Len(s) >= Len(suffix) /\ substringFrom(s, Len(s) - Len(suffix)) = suffix

\* C18: a HostWildcardCondition with pattern '*.D', D a literal domain, matches a
\* request exactly when request.host is D or ends with '.' + D.
C18_HostWildcardBaseDomain ==
    pc = "Conditions.match" /\ condObject.conditionType = "HostWildcardCondition" =>
        \A d \in LiteralDomains :
            condObject.pattern = "*." \o d =>
                answer = Returned(request.host = d \/ endsWith(request.host, "." \o d))

\* '*.example.com' has matched the bare domain example.com
C18_Witness ==
    /\ pc = "Conditions.match"
    /\ condObject.conditionType = "HostWildcardCondition"
    /\ condObject.pattern = "*.example.com"
    /\ request.host = "example.com"
    /\ answer = Returned(TRUE)

onlyAsterisks(pattern) ==
    pattern # "" /\ \A k \in 0..(Len(pattern) - 1) : charAt(pattern, k) = "*"

\* C19: shExp2RegExp(p) without trimAsterisk starts with '^' and ends with '$';
\* with trimAsterisk a pattern of asterisks only gives the empty string, a
\* leading run of '*' removes the '^' anchor and a trailing run the '$' anchor.
C19_ShExpAnchors ==
    pc = "shExp2RegExp" =>
        /\ ~entry.trimAsterisk =>
              charAt(answer, 0) = "^" /\ charAt(answer, Len(answer) - 1) = "$"
        /\ entry.trimAsterisk /\ onlyAsterisks(entry.pattern) => answer = ""
        /\ entry.trimAsterisk /\ charAt(entry.pattern, 0) = "*" => charAt(answer, 0) # "^"
        /\ entry.trimAsterisk /\ charAt(entry.pattern, Len(entry.pattern) - 1) = "*" =>
              charAt(answer, Len(answer) - 1) # "$"

\* bit i (1 = most significant) of a 32-bit number given by its octets
bitOf(octets, i) ==
    (octets[((i - 1) \div OctetBits) + 1] \div (2 ^ (OctetBits - 1 - ((i - 1) % OctetBits)))) % 2

topBitsEqual(a, b, n) ==
    \A i \in 1..n : bitOf(ipToNumber(a), i) = bitOf(ipToNumber(b), i)

\* C20: isIpInSubnet(address, subnet, prefixLength) on IPv4 literals is true
\* exactly when the top prefixLength bits of the two addresses are equal, for
\* every prefixLength from 0 (every address) to 32 (the identical address).
C20_SubnetComparesTopBits ==
    pc = "isIpInSubnet" =>
        answer = topBitsEqual(entry.ip, entry.subnet, entry.prefixLength)

-----------------------------------------------------------------------------
(* rule-list.ts: Switchy.compose, and the Switchy format called with texts *)
(* and rule lists of the caller.                                           *)

Eol == "\r\n"
SwitchyHeader == "[SwitchyOmega Conditions]"
WithResultLine == "@with result"
ComposeSpecialLineStart == "[;#@!+"

\* the condition text of a rule line: ': ' is put before a special first character
composeEscaped(line) ==
    IF indexOf(ComposeSpecialLineStart, charAt(line, 0)) >= 0 THEN ": " \o line ELSE line

\* the line of one rule, without its note
composeLine(rule, defaultProfileName, withResult, useExclusive) ==
    IF useExclusive /\ rule.profileName = defaultProfileName
    THEN "!" \o ConditionsStr(rule.condition)
    ELSE composeEscaped(ConditionsStr(rule.condition))
         \o (IF withResult THEN " +" \o rule.profileName ELSE "")

\* if (rule.note) ruleList += '@note ' + rule.note + eol
composeNote(rule) ==
    IF "note" \in DOMAIN rule /\ rule.note # "" THEN "@note " \o rule.note \o Eol ELSE ""

RECURSIVE composeRules(_, _, _, _)
composeRules(rs, defaultProfileName, withResult, useExclusive) ==
    IF rs = <<>> THEN ""
    ELSE composeNote(Head(rs))
         \o composeLine(Head(rs), defaultProfileName, withResult, useExclusive) \o Eol
         \o composeRules(Tail(rs), defaultProfileName, withResult, useExclusive)

\* Switchy.compose with both options resolved
SwitchyComposeWith(rs, defaultProfileName, withResult, useExclusive) ==
    SwitchyHeader \o Eol
    \o (IF withResult THEN WithResultLine \o Eol \o Eol ELSE Eol)
    \o composeRules(rs, defaultProfileName, withResult, useExclusive)
    \o (IF withResult THEN Eol \o "* +" \o defaultProfileName \o Eol ELSE "")

\* Switchy.compose({rules, defaultProfileName}, {withResult}): useExclusive is
\* options.useExclusive ?? !withResult
SwitchyCompose(rs, defaultProfileName, withResult) ==
    SwitchyComposeWith(rs, defaultProfileName, withResult, ~withResult)

MaxSwitchyLines == 3
MaxComposeRules == 2

\* rule lines of a text under '@with result': rules with a result profile, rules
\* without one ('!'), the catch-all line, a line without a result profile and a
\* line whose condition type does not exist
SwitchyVocabulary ==
    { "*.a.com +A", "!*.b.com", "* +B", "*.c.com", "Foo: x +A" }

SwitchyTexts ==
    { join(<<SwitchyHeader, first>> \o lines, "\n") :
        first \in {WithResultLine, "; rules"},
        lines \in SeqsUpTo(SwitchyVocabulary, MaxSwitchyLines) }

ComposeConditions ==
    { Condition("HostWildcardCondition", "*.example.com"),
      Condition("HostWildcardCondition", "a b"),
      Condition("HostWildcardCondition", "[x"),
      Condition("UrlWildcardCondition", "*example*"),
      Condition("KeywordCondition", "path"),
      Condition("BypassCondition", "example.com"),
      Condition("BypassCondition", "http://example.com"),
      [conditionType |-> "TrueCondition"],
      [conditionType |-> "IpCondition", ip |-> "10.0.0.0", prefixLength |-> Num(8)],
      [conditionType |-> "HostLevelsCondition", minValue |-> 1, maxValue |-> 2],
      [conditionType |-> "HostLevelsCondition", minValue |-> 0, maxValue |-> 1],
      [conditionType |-> "TimeCondition", startHour |-> 9, endHour |-> 17] }

ComposeRules ==
    {Rule(c, "A") : c \in ComposeConditions}
    \cup {Rule(Condition("HostWildcardCondition", "*.example.com"), "direct"),
          ("note" :> "n 1") @@ Rule(Condition("HostWildcardCondition", "*.example.com"), "A")}

\* the arguments of one call: parse(text, 'proxy', defaultProfileName, {strict})
\* or compose({rules, defaultProfileName}, {withResult: true})
SwitchyCalls ==
    {[text |-> t, defaultProfileName |-> d, strict |-> b] :
        t \in SwitchyTexts, d \in {"direct", "D"}, b \in BOOLEAN}
    \cup {[rules |-> rs, defaultProfileName |-> "direct"] :
            rs \in SeqsUpTo(ComposeRules, MaxComposeRules)}

InitSwitchy ==
    /\ options = NoProfile
    /\ entry \in SwitchyCalls
    /\ request = None
    /\ pc = "ready"
    /\ refs = None
    /\ script = None
    /\ answer = None
    /\ rules = <<>>
    /\ NoObjects

\* RuleList.Switchy.parse(text, 'proxy', defaultProfileName, {strict}): parse has
\* three parameters and calls the parser without options, so the fourth
\* argument is dropped; answer records whether the call raised
CallSwitchyParse ==
    /\ pc = "ready"
    /\ "text" \in DOMAIN entry
    /\ rules' = SwitchyParse(entry.text, "proxy", entry.defaultProfileName)
    /\ answer' = [raised |-> FALSE]
    /\ pc' = "Switchy.parse"
    /\ UNCHANGED <<options, entry, request, refs, script>>
    /\ UNCHANGED objVars

\* RuleList.Switchy.parse(RuleList.Switchy.compose({rules, defaultProfileName},
\* {withResult: true}), 'proxy', defaultProfileName)
CallSwitchyComposeParse ==
    /\ pc = "ready"
    /\ "rules" \in DOMAIN entry
    /\ answer' = SwitchyCompose(entry.rules, entry.defaultProfileName, TRUE)
    /\ rules' = SwitchyParse(SwitchyCompose(entry.rules, entry.defaultProfileName, TRUE),
                             "proxy", entry.defaultProfileName)
    /\ pc' = "Switchy.compose"
    /\ UNCHANGED <<options, entry, request, refs, script>>
    /\ UNCHANGED objVars

NextSwitchy == CallSwitchyParse \/ CallSwitchyComposeParse

SpecSwitchy == InitSwitchy /\ [][NextSwitchy]_vars

\* C24: isIncludable is true for a profile of every type (Direct, System, Fixed,
\* Switch, Virtual, RuleList, AutoProxyRuleList, Pac with an inline script or a
\* URL that is not a file URL) and false only for a PacProfile whose pacUrl is a
\* file:// URL.
C24_IncludableExceptFilePac ==
    pc = "isIncludable" =>
        (answer = FALSE <=>
            /\ entry.profile.profileType = "PacProfile"
            /\ "pacUrl" \in DOMAIN entry.profile
            /\ Len(entry.profile.pacUrl) >= 5
            /\ SubSeq(entry.profile.pacUrl, 1, 5) \in
                  {"file:", "FILE:", "File:", "fILE:", "FiLe:"})

-----------------------------------------------------------------------------
(* Properties of the Switchy format.                                       *)

isWithResultText(text) == splitLines(text)[2] = WithResultLine

\* the rule lines of a text: neither header, comment nor directive
RECURSIVE ruleLinesOf(_)
ruleLinesOf(lines) ==
    IF lines = <<>> THEN <<>>
    ELSE IF Head(lines) = "" \/ charAt(Head(lines), 0) \in {"[", ";", "@"}
         THEN ruleLinesOf(Tail(lines))
         ELSE <<Head(lines)>> \o ruleLinesOf(Tail(lines))

hasResult(line) == lastIndexOf(line, " +") >= 0

conditionTextOf(line) ==
    IF charAt(line, 0) = "!" THEN substringFrom(line, 1)
    ELSE trim(substring(line, 0, lastIndexOf(line, " +")))

\* a rule line under '@with result' that yields a rule
isWellFormed(line) ==
    /\ charAt(line, 0) = "!" \/ hasResult(line)
    /\ ConditionsFromStr(conditionTextOf(line)) # Undefined

RECURSIVE wellFormedOf(_)
wellFormedOf(lines) ==
    IF lines = <<>> THEN <<>>
    ELSE IF isWellFormed(Head(lines)) THEN <<Head(lines)>> \o wellFormedOf(Tail(lines))
         ELSE wellFormedOf(Tail(lines))

\* the target of the catch-all line of the text, or the default profile
catchAllTarget(lines, defaultProfileName) ==
    IF \E k \in 1..Len(lines) : hasResult(lines[k]) /\ conditionTextOf(lines[k]) = "*"
    THEN trim(substringFrom(lines[CHOOSE k \in 1..Len(lines) :
                                     hasResult(lines[k]) /\ conditionTextOf(lines[k]) = "*"],
                            lastIndexOf(lines[CHOOSE k \in 1..Len(lines) :
                                     hasResult(lines[k]) /\ conditionTextOf(lines[k]) = "*"],
                                        " +") + 2))
    ELSE defaultProfileName

expectedTarget(line, lines, defaultProfileName) ==
    IF charAt(line, 0) = "!" THEN catchAllTarget(lines, defaultProfileName)
    ELSE trim(substringFrom(line, lastIndexOf(line, " +") + 2))

\* C21: under '@with result' every rule of a '!' line, which carries no
\* '+target', has as target the profile of the catch-all '*' line wherever that
\* line stands in the text, and defaultProfileName when the text has no such
\* line; a rule with an explicit '+target' keeps it.
C21_CatchAllDesignatesDefaultTarget ==
    pc = "Switchy.parse" /\ isWithResultText(entry.text) =>
        /\ Len(rules) = Len(wellFormedOf(ruleLinesOf(splitLines(entry.text))))
        /\ \A k \in 1..Len(rules) :
              /\ rules[k].condition
                    = ConditionsFromStr(conditionTextOf(
                          wellFormedOf(ruleLinesOf(splitLines(entry.text)))[k]))
              /\ rules[k].profileName
                    = expectedTarget(wellFormedOf(ruleLinesOf(splitLines(entry.text)))[k],
                                     ruleLinesOf(splitLines(entry.text)),
                                     entry.defaultProfileName)

\* a '!' rule that stands before the catch-all line has the catch-all's target
C21_Witness ==
    /\ pc = "Switchy.parse"
    /\ entry.text = join(<<SwitchyHeader, WithResultLine, "!*.b.com", "*.a.com +A", "* +B">>, "\n")
    /\ Len(rules) = 3
    /\ rules[1].source = "!*.b.com" /\ rules[1].profileName = "B"
    /\ rules[2].profileName = "A"
    /\ rules[3].profileName = "B"

\* the strict parser raises on the text
isMalformedText(text, defaultProfileName) ==
    parseOmegaWith(text, "proxy", defaultProfileName, TRUE).raised

\* C22: RuleList.Switchy.parse skips malformed lines without raising in lenient
\* mode and returns the rules of the well-formed lines; when the caller selects
\* strict mode it raises on a text with a malformed line (missing result
\* profile, invalid condition text, missing catch-all rule).
C22_LenientSkipsStrictRaises ==
    pc = "Switchy.parse" =>
        /\ ~entry.strict =>
              /\ ~answer.raised
              /\ isWithResultText(entry.text) =>
                    Len(rules) = Len(wellFormedOf(ruleLinesOf(splitLines(entry.text))))
        /\ entry.strict /\ isMalformedText(entry.text, entry.defaultProfileName) =>
              answer.raised

\* a parsed rule without its source
ruleContent(rule) == [f \in DOMAIN rule \ {"source"} |-> rule[f]]

CatchAllRule(defaultProfileName) ==
    Rule(Condition("HostWildcardCondition", "*"), defaultProfileName)

\* C23: parsing the text composed from a rule list with {withResult: true} gives
\* the same rules in the same order, with the same conditions, targets and
\* notes, followed only by the catch-all '*' rule with target defaultProfileName.
C23_ComposeParseRoundTrip ==
    pc = "Switchy.compose" =>
        /\ Len(rules) = Len(entry.rules) + 1
        /\ \A k \in 1..Len(entry.rules) : ruleContent(rules[k]) = entry.rules[k]
        /\ ruleContent(rules[Len(rules)]) = CatchAllRule(entry.defaultProfileName)

-----------------------------------------------------------------------------
(* shexp-utils.ts: the PacGenerator object.  Its fields generatedProfiles   *)
(* and profileFunctions live as long as the object; generate is called on  *)
(* the same object more than once.                                         *)

\* the fields after the constructor
NewPacGenerator == [generatedProfiles |-> {}, profileFunctions |-> <<>>]

\* a generate that keeps the fields of the previous call
resetGeneratorKeep(gen) == gen

\* this.generatedProfiles.clear(); this.profileFunctions = []
resetGenerator(gen) == [gen EXCEPT !.generatedProfiles = {}, !.profileFunctions = <<>>]

\* the fields after generate(profileName), found being the reference set
generateOn(gen, found, opts) ==
    IF found.raised THEN resetGenerator(gen)
    ELSE generateLoop(found.out, 1, found.notFound, resetGenerator(gen), opts)

\* what generate(profileName) returns
generatedScript(gen, found, profileName) ==
    IF found.raised THEN [raised |-> TRUE, functions |-> <<>>, main |-> ""]
    ELSE [raised |-> FALSE, functions |-> gen.profileFunctions,
          main |-> profileFunctionName(profileName)]

MaxGeneratorRules == 2

GeneratorTargets == {"direct", "a.b", "a/b", "auto2", "gone"}

GeneratorRules ==
    {Rule(Condition("HostWildcardCondition", "*.example.com"), t) : t \in GeneratorTargets}

GeneratorFixed(name) ==
    FixedProfile(name, Proxy("http", "proxy.example.com", 8080),
                 Undefined, Undefined, Undefined, <<>>)

\* the profile auto, a SwitchProfile, with a.b; a/b is there or not; auto2 is
\* absent or a VirtualProfile, whose target may be auto itself
GeneratorCollections ==
    { ("+auto" :> SwitchProfile("auto", "SwitchProfile", rs, d))
      @@ ("+a.b" :> GeneratorFixed("a.b")) @@ ab @@ second :
        rs \in SeqsUpTo(GeneratorRules, MaxGeneratorRules),
        d \in GeneratorTargets,
        ab \in {NoProfile, ("+a/b" :> GeneratorFixed("a/b"))},
        second \in {NoProfile}
                   \cup {("+auto2" :> SwitchProfile("auto2", "VirtualProfile", <<>>, t)) :
                            t \in {"direct", "a/b", "auto"}} }

InitGenerator ==
    /\ options \in GeneratorCollections
    /\ entry \in {"auto", "auto2", "a.b"}
    /\ request = None
    /\ pc = "ready"
    /\ refs = NewPacGenerator
    /\ script = None
    /\ answer = None
    /\ rules = <<>>
    /\ NoObjects

\* generator.generate(entry) on the one PacGenerator, a first and a second
\* time; answer keeps what the call before returned
CallGenerate ==
    /\ pc \in {"ready", "generate"}
    /\ refs' = generateOn(refs, allReferenceSet(entry, options, "standin"), options)
    /\ script' = generatedScript(refs', allReferenceSet(entry, options, "standin"), entry)
    /\ answer' = script
    /\ pc' = IF pc = "ready" THEN "generate" ELSE "generate again"
    /\ UNCHANGED <<options, entry, request, rules>>
    /\ UNCHANGED objVars

NextGenerator == CallGenerate

SpecGenerator == InitGenerator /\ [][NextGenerator]_vars

-----------------------------------------------------------------------------
(* Properties of the PAC generator.                                        *)

\* the expressions returned under the conditions of a profile, in order
RECURSIVE ruleReturns(_)
ruleReturns(rs) ==
    IF rs = <<>> THEN <<>>
    ELSE <<Call(profileFunctionName(Head(rs).profileName))>> \o ruleReturns(Tail(rs))

conditionTargets(profile) ==
    CASE profile.profileType = "FixedProfile" ->
            [k \in 1..Len(profile.bypassList) |-> Lit("DIRECT")]
      [] profile.profileType \in {"SwitchProfile", "VirtualProfile"} ->
            ruleReturns(profile.rules)
      [] profile.profileType \in {"RuleListProfile", "AutoProxyRuleListProfile"} ->
            IF profile.format \in RuleListFormats /\ profile.ruleList # ""
            THEN ruleReturns(RuleListParse(profile.format, profile.ruleList,
                                           profile.matchProfileName,
                                           profile.defaultProfileName))
            ELSE <<>>
      [] OTHER -> <<>>

\* the profile without its conditions
withoutConditions(profile) ==
    CASE profile.profileType = "FixedProfile" -> [profile EXCEPT !.bypassList = <<>>]
      [] profile.profileType \in {"SwitchProfile", "VirtualProfile"} ->
            [profile EXCEPT !.rules = <<>>]
      [] profile.profileType \in {"RuleListProfile", "AutoProxyRuleListProfile"} ->
            [profile EXCEPT !.ruleList = ""]
      [] OTHER -> profile

\* the function of a profile all of whose conditions failed to compile: one
\* `if (false) return target;` for each condition, then what the profile emits
\* without conditions
functionWithFalseTests(profile, profileName) ==
    IF profile = Undefined THEN generateNotFoundFunction(profileName)
    ELSE Function(profileFunctionName(profile.name),
                  [k \in 1..Len(conditionTargets(profile)) |->
                      IfReturn("false", conditionTargets(profile)[k])]
                  \o profileFunctionOf(withoutConditions(profile), profileName).body)

falseTests(function) == {k \in 1..Len(function.body) : function.body[k].cond = "false"}

definitionsOf(fnName, generated) ==
    Cardinality({k \in 1..Len(generated.functions) : generated.functions[k].fn = fnName})

\* C26: generate(entry) returns a script with exactly one function definition
\* for each profile name of the reference closure of entry and none for another
\* name, in whatever order the closure is met, and the second generate call on
\* the same PacGenerator returns the same script as the first.
C26_OneFunctionPerClosureName ==
    pc \in {"generate", "generate again"} =>
        /\ ~script.raised
        /\ Len(script.functions) = Cardinality(reachableFrom({entry}, options))
        /\ \A n \in reachableFrom({entry}, options) :
              definitionsOf(profileFunctionName(n), script)
                 = Cardinality({m \in reachableFrom({entry}, options) :
                                  profileFunctionName(m) = profileFunctionName(n)})
        /\ pc = "generate again" => script = answer

isAlnumChar(c) ==
    \E k \in 1..62 :
        SubSeq("ABCDEFGHIJKLMNOPQRSTUVWXYZabcdefghijklmnopqrstuvwxyz0123456789", k, k) = c

\* the characters of name where every character outside [A-Za-z0-9] is '_'
sanitized(name) ==
    IF name = "" THEN ""
    ELSE [k \in 1..Len(name) |->
             IF isAlnumChar(SubSeq(name, k, k)) THEN SubSeq(name, k, k) ELSE "_"]

\* C27: the function of a profile is named 'profile_' followed by the profile
\* name with every character outside [A-Za-z0-9] replaced by '_', and names that
\* collide are not merged: the script has one definition for each name of the
\* reference set, so 'a.b' and 'a/b' give two definitions named profile_a_b.
C27_SanitizedNamesCollide ==
    pc \in {"generate", "generate again"} /\ ~script.raised =>
        /\ Len(script.functions) = Len(allReferenceSet(entry, options, "standin").out)
        /\ \A k \in 1..Len(script.functions) :
              /\ Len(script.functions[k].fn)
                    = 8 + Len(allReferenceSet(entry, options, "standin").out[k])
              /\ SubSeq(script.functions[k].fn, 1, 8) = "profile_"
              /\ \A c \in 1..Len(allReferenceSet(entry, options, "standin").out[k]) :
                    SubSeq(script.functions[k].fn, 8 + c, 8 + c)
                      = sanitized(allReferenceSet(entry, options, "standin").out[k])[c]

\* a.b and a/b are both in the reference set of auto and the script defines
\* profile_a_b twice
C27_Witness ==
    /\ pc = "generate"
    /\ ~script.raised
    /\ entry = "auto"
    /\ {"a.b", "a/b"} \subseteq Range(allReferenceSet(entry, options, "standin").out)
    /\ "+a/b" \in DOMAIN options
    /\ definitionsOf("profile_a_b", script) = 2

-----------------------------------------------------------------------------
(* options.ts: the current profile.  The specification starts after        *)
(* Options.init() and adds applyProfile and importOptions to the calls of  *)
(* the Options manager; `current` is _currentProfileName, "" for null.     *)

fallbackProfileName == "system"

\* getCurrentProfileName(): this._currentProfileName ?? this.fallbackProfileName
getCurrentProfileName(currentProfileName) ==
    IF currentProfileName = "" THEN fallbackProfileName ELSE currentProfileName

\* getCurrentProfile(): the object of the current profile, NoRef for undefined
getCurrentProfile(currentProfileName, opts) ==
    byNameRef(getCurrentProfileName(currentProfileName), opts)

\* the name init() applies: the stored current name when applyProfile accepts
\* it ("" stands for no stored name), the fallback name otherwise
initProfileName(stateName, opts) ==
    IF stateName # "" /\ byNameRef(stateName, opts) # NoRef THEN stateName
    ELSE fallbackProfileName

\* the profile the storage holds when init() loads the options
StoredProfile ==
    FixedProfile("A", Proxy("http", "proxy.example.com", 8080),
                 Undefined, Undefined, Undefined, <<>>)

\* the profiles of an imported JSON text
ImportedProfile ==
    FixedProfile("B", Proxy("http", "proxy.example.com", 8080),
                 Undefined, Undefined, Undefined, <<>>)

\* the names applyProfile is called with
AppliedNames == {"system", "direct", "A", "B", "C"}

\* the state after init(): the options are those of the storage, without a
\* profile or with the profile A, and the current profile is the one the state
\* storage names, or the fallback profile
InitCurrent ==
    /\ options = NoProfile
    /\ entry = None
    /\ request = None
    /\ pc = "ready"
    /\ refs = None
    /\ script = None
    /\ answer = None
    /\ rules = <<>>
    /\ \E loaded \in BOOLEAN :
          /\ heap = <<NewObject(builtinProfiles["+direct"]), NewObject(builtinProfiles["+system"])>>
                    \o (IF loaded THEN <<NewObject(StoredProfile)>> ELSE <<>>)
          /\ items = IF loaded THEN ("+A" :> 3) ELSE NoProfile
    /\ storage = items
    /\ \E stateName \in {"", "system", "direct", "A", "B"} :
          current = initProfileName(stateName, items)
    /\ now = StartTime
    /\ condObject = None
    /\ calls = 0

\* Options.applyProfile(name); it throws ProfileNotExistError when the name
\* does not resolve; entry keeps the current name of before the call
ApplyProfile ==
    /\ calls < MaxCalls /\ calls' = calls + 1
    /\ \E name \in AppliedNames :
          /\ entry' = [name |-> name, before |-> current]
          /\ IF byNameRef(name, items) = NoRef
             THEN pc' = "applyProfile threw" /\ current' = current
             ELSE pc' = "applyProfile" /\ current' = name
    /\ answer' = None
    /\ UNCHANGED <<heap, items, storage, now, condObject>>
    /\ UNCHANGED pacVars

\* Options.importOptions(json): the storage is cleared and set to the parsed
\* options, which become this._options; the text holds no profile or the
\* profile B, a new object
ImportOptions ==
    /\ calls < MaxCalls /\ calls' = calls + 1
    /\ \/ /\ heap' = heap
          /\ items' = NoProfile
       \/ /\ Len(heap) < Cardinality(DOMAIN builtinRefs) + MaxProfiles
          /\ heap' = Append(heap, NewObject(ImportedProfile))
          /\ items' = ("+B" :> Len(heap) + 1)
    /\ storage' = items'
    /\ pc' = "importOptions"
    /\ entry' = None
    /\ answer' = None
    /\ UNCHANGED <<current, now, condObject>>
    /\ UNCHANGED pacVars

NextCurrent ==
    \/ AddProfile
    \/ RemoveProfile
    \/ RenameProfile
    \/ ApplyProfile
    \/ ImportOptions

SpecCurrent == InitCurrent /\ [][NextCurrent]_vars

-----------------------------------------------------------------------------
(* extension/background/index.ts: the message listener of the background   *)
(* worker.  `options` is the worker's variable options, `current` its       *)
(* currentProfileName, `storage` is chrome.storage.local and `request` the  *)
(* handlers in flight: each is an async function that runs until its next   *)
(* await, where the handlers of other messages run.  A call of the storage  *)
(* takes effect when it is made, so the calls take effect in their order.   *)

CurrentKey == "_currentProfileName"

\* getDefaultOptions()
DefaultOptions ==
    ("-schemaVersion" :> 2)
    @@ ("-startupProfileName" :> "")
    @@ ("-quickSwitchProfiles" :> <<>>)
    @@ ("-refreshOnProfileChange" :> FALSE)
    @@ ("-enableQuickSwitch" :> FALSE)
    @@ ("-revertProxyChanges" :> FALSE)
    @@ ("-showInspectMenu" :> TRUE)
    @@ ("-downloadInterval" :> 1440)
    @@ ("+proxy" :> [name |-> "proxy", profileType |-> "FixedProfile"])
    @@ ("+auto switch" :> [name |-> "auto switch", profileType |-> "SwitchProfile"])

\* chrome.storage.local.set(changes): the given keys are written, the others stay
storageSet(st, changes) == changes @@ st

\* chrome.storage.local.clear()
storageClear(st) == NoProfile

\* the entries of the storage that are options
optionEntries(st) == [k \in DOMAIN st \ {CurrentKey} |-> st[k]]

\* the options a page sends: with the profile test-profile, without it, and
\* with a changed proxy
SentProxy(port) ==
    [name |-> "proxy", profileType |-> "FixedProfile",
     fallbackProxy |-> Proxy("http", "127.0.0.1", port)]

SentOptions ==
    { ("-schemaVersion" :> 2) @@ ("+proxy" :> SentProxy(8080)),
      ("-schemaVersion" :> 2) @@ ("+proxy" :> SentProxy(8080))
         @@ ("+test-profile" :> [name |-> "test-profile", profileType |-> "FixedProfile",
                                 fallbackProxy |-> Proxy("http", "127.0.0.1", 8081)]),
      ("-schemaVersion" :> 2) @@ ("+proxy" :> SentProxy(3128)) }

\* at most this many handlers are in flight at a time
MaxHandlers == 2

\* the pages send at most this many messages
MaxMessages == 3

\* a handler at its next step
Handler(action, sent, step, alone) ==
    [action |-> action, options |-> sent, pc |-> step, alone |-> alone]

\* the handlers in flight once another message has arrived
overlapped(handlers) == [i \in 1..Len(handlers) |-> [handlers[i] EXCEPT !.alone = FALSE]]

without(handlers, i) == SubSeq(handlers, 1, i - 1) \o SubSeq(handlers, i + 1, Len(handlers))

\* the state after init() on a first run, or after a profile was applied
InitBackground ==
    /\ options = DefaultOptions
    /\ entry = None
    /\ request = <<>>
    /\ pc = "ready"
    /\ refs = None
    /\ script = None
    /\ answer = None
    /\ rules = <<>>
    /\ heap = <<>>
    /\ items = <<>>
    /\ current \in {"system", "proxy"}
    /\ storage = storageSet(DefaultOptions, CurrentKey :> current)
    /\ now = 0
    /\ condObject = None
    /\ calls = 0

backgroundFrame == UNCHANGED <<entry, refs, script, rules, heap, items, now, condObject>>

\* a message arrives: the handler runs up to its first await
receive(action, sent) ==
    /\ calls < MaxMessages /\ calls' = calls + 1
    /\ Len(request) < MaxHandlers
    /\ request' = Append(overlapped(request), Handler(action, sent, "cleared", request = <<>>))
    /\ storage' = storageClear(storage)
    /\ pc' = action
    /\ UNCHANGED <<current, answer>>
    /\ backgroundFrame

\* case 'setOptions': options = message.options; await chrome.storage.local.clear()
ReceiveSetOptions ==
    \E sent \in SentOptions : receive("setOptions", sent) /\ options' = sent

\* case 'importOptions': await chrome.storage.local.clear()
ReceiveImportOptions ==
    \E sent \in SentOptions : receive("importOptions", sent) /\ options' = options

\* case 'resetOptions': await chrome.storage.local.clear()
ReceiveResetOptions ==
    receive("resetOptions", NoProfile) /\ options' = options

\* the handler i goes on after its await of clear()
afterClear(i, action) ==
    /\ i \in 1..Len(request)
    /\ request[i].action = action
    /\ request[i].pc = "cleared"
    /\ request' = [request EXCEPT ![i].pc = "set"]
    /\ pc' = action
    /\ UNCHANGED <<current, answer, calls>>
    /\ backgroundFrame

\* setOptions: await chrome.storage.local.set(options), with the variable
\* options as it is now
SetOptionsSet ==
    \E i \in 1..MaxHandlers :
        /\ afterClear(i, "setOptions")
        /\ storage' = storageSet(storage, options)
        /\ options' = options

\* importOptions: await chrome.storage.local.set(message.options)
ImportOptionsSet ==
    \E i \in 1..MaxHandlers :
        /\ afterClear(i, "importOptions")
        /\ storage' = storageSet(storage, request[i].options)
        /\ options' = options

\* resetOptions: options = getDefaultOptions(); await chrome.storage.local.set(options)
ResetOptionsSet ==
    \E i \in 1..MaxHandlers :
        /\ afterClear(i, "resetOptions")
        /\ options' = DefaultOptions
        /\ storage' = storageSet(storage, DefaultOptions)

\* the handler i goes on after its await of set() and ends
afterSet(i, action) ==
    /\ i \in 1..Len(request)
    /\ request[i].action = action
    /\ request[i].pc = "set"
    /\ request' = without(request, i)
    /\ answer' = request[i]
    /\ pc' = action
    /\ UNCHANGED calls
    /\ backgroundFrame

\* applyProfile(name): currentProfileName = name;
\* await chrome.storage.local.set({_currentProfileName: name}); the proxy
\* settings and the icon follow
applyProfile(name) ==
    /\ current' = name
    /\ storage' = storageSet(storage, CurrentKey :> name)

\* setOptions: await applyProfile(currentProfileName)
SetOptionsApply ==
    \E i \in 1..MaxHandlers :
        /\ afterSet(i, "setOptions")
        /\ applyProfile(current)
        /\ options' = options

\* importOptions: options = message.options
ImportOptionsAssign ==
    \E i \in 1..MaxHandlers :
        /\ afterSet(i, "importOptions")
        /\ options' = request[i].options
        /\ UNCHANGED <<storage, current>>

\* resetOptions: await applyProfile('system')
ResetOptionsApply ==
    \E i \in 1..MaxHandlers :
        /\ afterSet(i, "resetOptions")
        /\ applyProfile("system")
        /\ options' = options

NextBackground ==
    \/ ReceiveSetOptions
    \/ ReceiveImportOptions
    \/ ReceiveResetOptions
    \/ SetOptionsSet
    \/ ImportOptionsSet
    \/ ResetOptionsSet
    \/ SetOptionsApply
    \/ ImportOptionsAssign
    \/ ResetOptionsApply

SpecBackground == InitBackground /\ [][NextBackground]_vars

-----------------------------------------------------------------------------
(* Properties of the Options manager: the builtin and the current profile. *)

\* C30: no operation changes the two builtin profiles: after any sequence of
\* addProfile, removeProfile, renameProfile (also with the old name 'direct' or
\* 'system') and replaceRef calls, byName('direct') is the DirectProfile named
\* 'direct' and byName('system') is the SystemProfile named 'system'.
C30_BuiltinProfilesUnchanged ==
    /\ byNameRef("direct", items) # NoRef
    /\ heap[byNameRef("direct", items)].name = "direct"
    /\ heap[byNameRef("direct", items)].profileType = "DirectProfile"
    /\ byNameRef("system", items) # NoRef
    /\ heap[byNameRef("system", items)].name = "system"
    /\ heap[byNameRef("system", items)].profileType = "SystemProfile"

\* C29: in every state after init, whatever addProfile, removeProfile,
\* renameProfile, applyProfile and importOptions calls were made,
\* getCurrentProfileName() names a profile that resolves (getCurrentProfile() is
\* defined); an applyProfile of a name that does not resolve raises
\* ProfileNotExistError and leaves the current profile name as it was.
C29_CurrentProfileResolves ==
    /\ getCurrentProfile(current, items) # NoRef
    /\ pc = "applyProfile threw" =>
          /\ byNameRef(entry.name, items) = NoRef
          /\ current = entry.before

-----------------------------------------------------------------------------
(* Properties of the background worker.                                    *)

\* C28: when no handler is in flight, whatever the interleaving of the
\* setOptions, importOptions and resetOptions handlers at their awaits was, the
\* option entries of chrome.storage.local are the worker's in-memory options,
\* and after a setOptions message they are exactly the entries that were sent:
\* a profile left out of them is not in the storage.
C28_StorageEqualsOptionsWhenIdle ==
    request = <<>> /\ answer # None =>
        /\ optionEntries(storage) = options
        /\ answer.action = "setOptions" /\ answer.alone =>
              optionEntries(storage) = answer.options

====
